---- MODULE Spec2Model ----
(***************************************************************************)
(* django-nsync: the model actions (src/src/nsync/actions.py), the action  *)
(* factory and the immediate sync policy (src/src/nsync/policies.py),      *)
(* over a record store (one entity type) and the ExternalKeyMapping table. *)
(***************************************************************************)
EXTENDS Integers, Sequences, FiniteSets, TLC

\* Largest primary key the record store hands out (auto-increment, never
\* reused): for the single actions, and for the runs of the policy.
MaxId == 3
MaxRunId == 2
MaxFlags == 3
MaxTokens == 5
MaxBatch == 2
MaxBulkRows == 5

Systems == {"s1", "s2"}
\* External keys are strings, written as sequences of characters.
K1 == <<"k", "1">>
K2 == <<"k", "2">>
Keys == {K1, K2}

\* Python None / SQL NULL as a field value; "no object" as a returned record.
NONE == "None"
NoObj == 0

\* The entity type of the model: a non-nullable text field and a nullable one.
Attrs == {"name", "email"}
Nullable == {"email"}
Names == {"", "a"}
Emails == {"", "x", "y"}
\* The field directives of a row: a file with the name column alone, or
\* with both columns.
FieldSets == [name : Names]
WideFieldSets == [name : Names, email : Emails]

\* match_on: absent, or one field of the row (no operator tokens).
MatchSpecs == {<<>>, <<"name">>}
WideMatchSpecs == {<<>>, <<"name">>, <<"email">>}

\* Whether deleting a record also deletes the mapping rows that point at it
\* (a reverse generic relation on the synchronised model) or leaves them
\* dangling; fixed per deployment.
Cascades == BOOLEAN

VARIABLES store, maps, nextId, cascade, last

vars == <<store, maps, nextId, cascade, last>>

Db(s, m, n) == [store |-> s, maps |-> m, nextId |-> n]
CurDb == Db(store, maps, nextId)

\* Result of one execute(): the stores afterwards, the returned record (its
\* id, NoObj for None), the exception that propagated ("" for none) and the
\* action's obj_already_created attribute.
Res(db, ret, exc) == [db |-> db, ret |-> ret, exc |-> exc, already |-> FALSE]

-----------------------------------------------------------------------------
(* ObjectSelector: construction over the fields of a row, and get_by with  *)
(* operator tokens. A Q object is modelled by the set of the records of a  *)
(* table that satisfy it.                                                  *)
OPERATORS == {"|", "&", "~"}

\* ObjectSelector.__init__: TRUE when it raises ValueError.
ObjectSelector_init(match_on, available_fields) ==
    \E n \in 1..Len(match_on) :
        /\ match_on[n] \notin OPERATORS
        /\ match_on[n] \notin DOMAIN available_fields

\* build_selector: Q(**{match: self.fields[match]}).
build_selector(table, match, fields) ==
    {i \in DOMAIN table : table[i][match] = fields[match]}

Pop(stack) == SubSeq(stack, 1, Len(stack) - 1)
Top(stack) == stack[Len(stack)]

\* Faulty variant: | and & are taken for each other.
get_by_token_Swapped(table, stack, match, fields) ==
    IF match \in OPERATORS
    THEN IF match = "~"
         THEN Append(Pop(stack), DOMAIN table \ Top(stack))
         ELSE IF match = "|"
              THEN Append(Pop(Pop(stack)), Top(Pop(stack)) \cap Top(stack))
              ELSE Append(Pop(Pop(stack)), Top(Pop(stack)) \cup Top(stack))
    ELSE Append(stack, build_selector(table, match, fields))

\* One token of the post-fix loop, once its operands are known to be there.
get_by_token(table, stack, match, fields) ==
    IF match \in OPERATORS
    THEN IF match = "~"
         THEN Append(Pop(stack), DOMAIN table \ Top(stack))
         ELSE IF match = "|"
              THEN Append(Pop(Pop(stack)), Top(Pop(stack)) \cup Top(stack))
              ELSE Append(Pop(Pop(stack)), Top(Pop(stack)) \cap Top(stack))
    ELSE Append(stack, build_selector(table, match, fields))

\* The operands an operator token needs on the stack.
Operands(match) ==
    IF match = "~" THEN 1 ELSE IF match \in OPERATORS THEN 2 ELSE 0

Raised(exc) == [exc |-> exc, q |-> {}]
Returned(q) == [exc |-> "", q |-> q]

\* The post-fix loop from token n on, and the check of the stack after it.
RECURSIVE get_by_postfix(_, _, _, _, _)
get_by_postfix(table, match_on, fields, n, stack) ==
    IF n > Len(match_on)
    THEN IF Len(stack) # 1 THEN Raised("ValueError")
         ELSE Returned(stack[1])
    ELSE IF Len(stack) < Operands(match_on[n]) THEN Raised("ValueError")
    ELSE get_by_postfix(table, match_on, fields, n + 1,
                        get_by_token(table, stack, match_on[n], fields))

\* ObjectSelector.get_by of a selector that was constructed.
get_by(table, match_on, fields) ==
    IF \A n \in 1..Len(match_on) : match_on[n] \notin OPERATORS
    THEN Returned({i \in DOMAIN table :
                      \A n \in 1..Len(match_on) :
                          i \in build_selector(table, match_on[n], fields)})
    ELSE get_by_postfix(table, match_on, fields, 1, <<>>)

-----------------------------------------------------------------------------
(* ModelAction.get_object with ObjectSelector.get_by, operator-free branch: *)
(* the AND of the equality predicates of the listed fields.                *)
Matching(db, match, fields) ==
    {i \in DOMAIN db.store :
        \A n \in 1..Len(match) : db.store[i][match[n]] = fields[match[n]]}

\* Faulty variant: the first of several matches is taken.
get_object_First(db, match, fields) ==
    IF match = <<>> THEN [st |-> "attr", id |-> NoObj]
    ELSE LET ids == Matching(db, match, fields) IN
         IF ids = {} THEN [st |-> "none", id |-> NoObj]
         ELSE [st |-> "one", id |-> CHOOSE i \in ids : \A j \in ids : i <= j]

\* The exception that get_object lets through, "" when it returns or
\* raises one that execute() handles.
Raises(st) ==
    CASE st = "attr" -> "AttributeError"
      [] st = "value" -> "ValueError"
      [] OTHER -> ""

\* objects.get on the Q object g that get_by returned, or its ValueError.
get_object_by(g) ==
    IF g.exc # "" THEN [st |-> "value", id |-> NoObj]
    ELSE IF g.q = {} THEN [st |-> "none", id |-> NoObj]
    ELSE IF Cardinality(g.q) = 1
         THEN [st |-> "one", id |-> CHOOSE i \in g.q : TRUE]
         ELSE [st |-> "many", id |-> NoObj]

\* "one" with the id, "none" (ObjectDoesNotExist), "many"
\* (MultipleObjectsReturned), "attr" (match_on is None: AttributeError),
\* "value" (get_by raised ValueError).
get_object(db, match, fields) ==
    IF match = <<>> THEN [st |-> "attr", id |-> NoObj]
    ELSE IF \E n \in 1..Len(match) : match[n] \in OPERATORS
    THEN get_object_by(get_by(db.store, match, fields))
    ELSE LET ids == Matching(db, match, fields) IN
         IF ids = {} THEN [st |-> "none", id |-> NoObj]
         ELSE IF Cardinality(ids) = 1
              THEN [st |-> "one", id |-> CHOOSE i \in ids : TRUE]
              ELSE [st |-> "many", id |-> NoObj]

IsEmpty(v) == v = NONE \/ v = ""

\* field.null: an empty incoming value becomes None.
Conv(a, v) == IF a \in Nullable /\ v = "" THEN NONE ELSE v

\* Faulty variant: the force flag is ignored, every directive overwrites.
update_from_fields_Always(obj, fields, force) ==
    [a \in DOMAIN obj |->
        IF a \in DOMAIN fields THEN Conv(a, fields[a]) ELSE obj[a]]

\* ModelAction.update_from_fields, plain attributes.
update_from_fields(obj, fields, force) ==
    [a \in DOMAIN obj |->
        IF a \in DOMAIN fields /\ (force \/ IsEmpty(obj[a]))
        THEN Conv(a, fields[a])
        ELSE obj[a]]

\* self.model(): field defaults of a fresh instance.
NewObj == [name |-> "", email |-> NONE]

\* Model.save on a fresh instance: INSERT under the next primary key.
InsertRecord(db, obj) ==
    Db(db.store @@ (db.nextId :> obj), db.maps, db.nextId + 1)

\* obj.save() on a loaded instance: UPDATE of its row.
SaveRecord(db, id, obj) ==
    Db([i \in DOMAIN db.store |-> IF i = id THEN obj ELSE db.store[i]],
       db.maps, db.nextId)

\* Faulty variant: the mapping rows of a deleted record always stay.
DeleteRecord_Kept(db, id) ==
    Db([i \in DOMAIN db.store \ {id} |-> db.store[i]], db.maps, db.nextId)

\* Model.delete: the row goes; mapping rows that point at it go with it when
\* the entity type declares the generic relation (cascade).
DeleteRecord(db, id) ==
    Db([i \in DOMAIN db.store \ {id} |-> db.store[i]],
       IF cascade THEN {m \in db.maps : m.oid # id} ELSE db.maps,
       db.nextId)

-----------------------------------------------------------------------------
(* ExternalKeyMapping rows: (external_system, external_key, object_id) of  *)
(* the one content type.                                                   *)
Mapping(sys, key, oid) == [sys |-> sys, key |-> key, oid |-> oid]

LookupMapping(ms, sys, key) == {m \in ms : m.sys = sys /\ m.key = key}

\* GenericForeignKey content_object: the record, None when it is gone.
content_object(db, oid) == IF oid \in DOMAIN db.store THEN oid ELSE NoObj

\* Faulty variant: the table has no unique constraint.
UniqueViolation_Never(ms, sys, key) == FALSE

\* unique_together (external_system, external_key, content_type, tenant).
UniqueViolation(ms, sys, key) == LookupMapping(ms, sys, key) # {}

-----------------------------------------------------------------------------
(* ModelAction.execute: does nothing.                                      *)
ModelAction_execute(db) == Res(db, NoObj, "")

\* Faulty variant: force_init_instance is ignored, the existence check always runs.
CreateModelAction_execute_Checked(db, match, fields, finit) ==
    LET g == get_object(db, match, fields)
        obj == update_from_fields(NewObj, fields, TRUE)
    IN  IF match # <<>> /\ Raises(g.st) # ""
        THEN Res(db, NoObj, Raises(g.st))
        ELSE IF match # <<>> /\ g.st = "one"
        THEN [Res(db, g.id, "") EXCEPT !.already = TRUE]
        ELSE IF match # <<>> /\ g.st = "many" THEN Res(db, NoObj, "")
        ELSE Res(InsertRecord(db, obj), db.nextId, "")

(* CreateModelAction.execute                                               *)
CreateModelAction_execute(db, match, fields, finit) ==
    LET g == get_object(db, match, fields)
        obj == update_from_fields(NewObj, fields, TRUE)
    IN  IF match # <<>> /\ ~finit /\ Raises(g.st) # ""
        THEN Res(db, NoObj, Raises(g.st))
        ELSE IF match # <<>> /\ ~finit /\ g.st = "one"
        THEN [Res(db, g.id, "") EXCEPT !.already = TRUE]
        ELSE IF match # <<>> /\ ~finit /\ g.st = "many" THEN Res(db, NoObj, "")
        ELSE Res(InsertRecord(db, obj), db.nextId, "")

\* Faulty variant: the mapping is never saved.
SaveMapping_Forgotten(db, loaded, sys, key, oid) == [db |-> db, exc |-> ""]

(* ExternalKeyMapping.save: INSERT of a fresh row (old = NoObj row absent), *)
(* UPDATE of a loaded one.                                                  *)
SaveMapping(db, loaded, sys, key, oid) ==
    IF loaded = {}
    THEN IF UniqueViolation(db.maps, sys, key)
         THEN [db |-> db, exc |-> "IntegrityError"]
         ELSE [db |-> Db(db.store, db.maps \cup {Mapping(sys, key, oid)},
                         db.nextId),
               exc |-> ""]
    ELSE [db |-> Db(db.store,
                    (db.maps \ loaded) \cup {Mapping(sys, key, oid)},
                    db.nextId),
          exc |-> ""]

\* Faulty variant: the stored mapping is never looked up.
get_or_init_ext_mapp_Fresh(db, sys, key, force_init) == {}

(* ReferenceActionMixin.get_or_init_ext_mapp: the loaded row(s), {} for a   *)
(* fresh unsaved instance.                                                  *)
get_or_init_ext_mapp(db, sys, key, force_init) ==
    IF force_init THEN {} ELSE LookupMapping(db.maps, sys, key)

\* object_id of the mapping instance (None on a fresh one).
MappingOid(loaded) ==
    IF loaded = {} THEN NoObj ELSE (CHOOSE m \in loaded : TRUE).oid

(* CreateModelWithReferenceAction.execute                                  *)
CreateModelWithReferenceAction_execute(db, sys, key, match, fields, finit) ==
    LET loaded == get_or_init_ext_mapp(db, sys, key, finit) IN
    IF Cardinality(loaded) > 1 THEN Res(db, NoObj, "MultipleObjectsReturned")
    ELSE
    LET linked == content_object(db, MappingOid(loaded))
        r == IF linked = NoObj
             THEN CreateModelAction_execute(db, match, fields, finit)
             ELSE Res(db, linked, "")
    IN  IF r.ret # NoObj /\ r.ret # MappingOid(loaded)
        THEN LET sv == SaveMapping(r.db, loaded, sys, key, r.ret)
             IN  [Res(sv.db, IF sv.exc = "" THEN r.ret ELSE NoObj, sv.exc)
                     EXCEPT !.already = r.already]
        ELSE r

\* Faulty variant: an update that finds nothing creates the record.
UpdateModelAction_execute_Upsert(db, match, fields, force) ==
    LET g == get_object(db, match, fields) IN
    IF Raises(g.st) # "" THEN Res(db, NoObj, Raises(g.st))
    ELSE IF g.st = "many" THEN Res(db, NoObj, "")
    ELSE IF g.st = "none"
    THEN Res(InsertRecord(db, update_from_fields(NewObj, fields, TRUE)),
             db.nextId, "")
    ELSE Res(SaveRecord(db, g.id,
                        update_from_fields(db.store[g.id], fields, force)),
             g.id, "")

(* UpdateModelAction.execute                                               *)
UpdateModelAction_execute(db, match, fields, force) ==
    LET g == get_object(db, match, fields) IN
    IF Raises(g.st) # "" THEN Res(db, NoObj, Raises(g.st))
    ELSE IF g.st # "one" THEN Res(db, NoObj, "")
    ELSE Res(SaveRecord(db, g.id,
                        update_from_fields(db.store[g.id], fields, force)),
             g.id, "")

\* Faulty variant: the matched record is preferred to the linked one and
\* is never deleted.
UpdateModelWithReferenceAction_execute_Matched(db, sys, key, match, fields, force) ==
    LET loaded == get_or_init_ext_mapp(db, sys, key, FALSE)
        g == get_object(db, match, fields)
        model_obj == IF g.id # NoObj THEN g.id
                     ELSE content_object(db, MappingOid(loaded))
    IN
    IF Raises(g.st) # "" THEN Res(db, NoObj, Raises(g.st))
    ELSE IF g.st = "many" \/ model_obj = NoObj THEN Res(db, NoObj, "")
    ELSE Res(SaveMapping(
                 SaveRecord(db, model_obj,
                            update_from_fields(db.store[model_obj], fields,
                                               force)),
                 loaded, sys, key, model_obj).db,
             model_obj, "")

(* UpdateModelWithReferenceAction.execute                                  *)
UpdateModelWithReferenceAction_execute(db, sys, key, match, fields, force) ==
    LET loaded == get_or_init_ext_mapp(db, sys, key, FALSE) IN
    IF Cardinality(loaded) > 1 THEN Res(db, NoObj, "MultipleObjectsReturned")
    ELSE
    LET linked == content_object(db, MappingOid(loaded))
        g == get_object(db, match, fields)
    IN
    IF Raises(g.st) # "" THEN Res(db, NoObj, Raises(g.st))
    ELSE IF g.st = "many" THEN Res(db, NoObj, "")
    ELSE
    LET matched == g.id
        db1 == IF matched # NoObj /\ linked # NoObj /\ matched # linked
               THEN DeleteRecord(db, matched)
               ELSE db
        model_obj == IF linked # NoObj THEN linked ELSE matched
    IN
    IF model_obj = NoObj THEN Res(db1, NoObj, "")
    ELSE
    LET db2 == SaveRecord(db1, model_obj,
                   update_from_fields(db.store[model_obj], fields, force))
    IN  IF model_obj # MappingOid(loaded)
        THEN LET sv == SaveMapping(db2, loaded, sys, key, model_obj)
             IN  Res(sv.db, IF sv.exc = "" THEN model_obj ELSE NoObj, sv.exc)
        ELSE Res(db2, model_obj, "")

\* Faulty variant: the record handed in by the caller is ignored.
DeleteModelAction_execute_Lookup(db, given, match, fields) ==
    LET g == get_object(db, match, fields) IN
    IF Raises(g.st) # "" THEN Res(db, NoObj, Raises(g.st))
    ELSE IF g.st = "one" THEN Res(DeleteRecord(db, g.id), g.id, "")
    ELSE Res(db, NoObj, "")

(* DeleteModelAction.execute(obj): obj given by the caller, or found by the *)
(* match specification.                                                     *)
DeleteModelAction_execute(db, given, match, fields) ==
    IF given # NoObj THEN Res(DeleteRecord(db, given), given, "")
    ELSE LET g == get_object(db, match, fields) IN
         IF Raises(g.st) # "" THEN Res(db, NoObj, Raises(g.st))
         ELSE IF g.st = "one" THEN Res(DeleteRecord(db, g.id), g.id, "")
         ELSE Res(db, NoObj, "")

(* DeleteIfOnlyReferenceModelAction.execute                                *)
DeleteIfOnlyReferenceModelAction_execute(db, sys, key, match, fields) ==
    IF match # <<>>
    THEN LET g == get_object(db, match, fields) IN
         IF Raises(g.st) # "" THEN Res(db, NoObj, Raises(g.st))
         ELSE IF g.st # "one" THEN Res(db, NoObj, "")
         ELSE LET km == {m \in db.maps : m.oid = g.id /\ m.key = key} IN
              IF Cardinality(km) # 1 THEN Res(db, NoObj, "")
              ELSE IF (CHOOSE m \in km : TRUE).sys = sys
                   THEN DeleteModelAction_execute(db, g.id, match, fields)
                   ELSE Res(db, NoObj, "")
    ELSE LET km == LookupMapping(db.maps, sys, key) IN
         IF Cardinality(km) # 1 THEN Res(db, NoObj, "")
         ELSE LET obj == content_object(db, MappingOid(km)) IN
              IF obj # NoObj
              THEN DeleteModelAction_execute(db, obj, match, fields)
              ELSE Res(db, NoObj, "")

\* Faulty variant: the mapping row is left in place.
DeleteExternalReferenceAction_execute_Kept(db, sys, key) == Res(db, NoObj, "")

(* DeleteExternalReferenceAction.execute                                   *)
DeleteExternalReferenceAction_execute(db, sys, key) ==
    Res(Db(db.store, db.maps \ LookupMapping(db.maps, sys, key), db.nextId),
        NoObj, "")

-----------------------------------------------------------------------------
(* SyncActions, CsvSyncActionsDecoder.decode, ActionFactory.build and      *)
(* CsvActionFactory.from_dict.                                             *)

\* action_flags: a string, written as the sequence of its characters.
Chars(flags) == {flags[i] : i \in 1..Len(flags)}

\* Faulty variant: upper-case letters are not recognised.
decode_LowerCase(flags) ==
    [create |-> "c" \in Chars(flags),
     delete |-> "d" \in Chars(flags),
     force  |-> "*" \in Chars(flags),
     update |-> "u" \in Chars(flags)]

decode(flags) ==
    [create |-> "C" \in Chars(flags) \/ "c" \in Chars(flags),
     delete |-> "D" \in Chars(flags) \/ "d" \in Chars(flags),
     force  |-> "*" \in Chars(flags),
     update |-> "U" \in Chars(flags) \/ "u" \in Chars(flags)]

\* SyncActions.__init__ raises ValueError.
SyncActionsInvalid(sa) == sa.delete /\ (sa.create \/ sa.update)

\* Faulty variant: no request is impotent.
is_impotent_Never(sa) == FALSE

is_impotent(sa) == ~(sa.create \/ sa.update \/ sa.delete)

\* An external key as the factory receives it: None, a string, or a value
\* of another type.
NoKey == [kind |-> "none", val |-> <<>>]
StrKey(val) == [kind |-> "str", val |-> val]

Whitespace == {" "}

RECURSIVE lstrip(_)
lstrip(str) ==
    IF str # <<>> /\ Head(str) \in Whitespace THEN lstrip(Tail(str)) ELSE str

RECURSIVE rstrip(_)
rstrip(str) ==
    IF str # <<>> /\ str[Len(str)] \in Whitespace
    THEN rstrip(SubSeq(str, 1, Len(str) - 1))
    ELSE str

strip(str) == rstrip(lstrip(str))

NoSystem == "None"

\* Faulty variant: no key is ever mappable.
is_externally_mappable_Never(external_system, external_key) == FALSE

is_externally_mappable(external_system, external_key) ==
    IF external_system = NoSystem THEN FALSE
    ELSE IF external_key.kind = "none" THEN FALSE
    ELSE IF external_key.kind # "str" THEN FALSE
    ELSE strip(external_key.val) # <<>>

\* An action object: its class and constructor arguments.
Action(cls, sys, key, match, fields, flag) ==
    [cls |-> cls, sys |-> sys, key |-> key, match |-> match,
     fields |-> fields, flag |-> flag]

\* build, the impotent request (lines 820-821).
build_impotent(sa, match, fields) ==
    IF is_impotent(sa)
    THEN <<Action("ModelAction", NoSystem, <<>>, match, fields, FALSE)>>
    ELSE <<>>

\* Faulty variant: the mapping is removed before the record is looked at.
build_delete_Reversed(external_system, sa, match, external_key, fields) ==
    IF ~sa.delete THEN <<>>
    ELSE IF is_externally_mappable(external_system, external_key)
    THEN <<Action("DeleteExternalReference", external_system,
                  external_key.val, <<>>, fields, FALSE),
           IF ~sa.force
           THEN Action("DeleteIfOnlyReference", external_system,
                       external_key.val, match, fields, FALSE)
           ELSE Action("Delete", NoSystem, <<>>, match, fields, FALSE)>>
    ELSE IF sa.force
    THEN <<Action("Delete", NoSystem, <<>>, match, fields, FALSE)>>
    ELSE <<>>

\* Faulty variant: a forced delete with a mappable key is wrapped too.
build_delete_Wrapped(external_system, sa, match, external_key, fields) ==
    IF ~sa.delete THEN <<>>
    ELSE IF is_externally_mappable(external_system, external_key)
    THEN <<Action("DeleteIfOnlyReference", external_system,
                  external_key.val, match, fields, FALSE),
           Action("DeleteExternalReference", external_system,
                  external_key.val, <<>>, fields, FALSE)>>
    ELSE IF sa.force
    THEN <<Action("Delete", NoSystem, <<>>, match, fields, FALSE)>>
    ELSE <<>>

\* Faulty variant: an unforced delete without a mappable key appends the
\* plain Delete as well.
build_delete_Unmapped(external_system, sa, match, external_key, fields) ==
    IF ~sa.delete THEN <<>>
    ELSE IF is_externally_mappable(external_system, external_key)
    THEN <<IF ~sa.force
           THEN Action("DeleteIfOnlyReference", external_system,
                       external_key.val, match, fields, FALSE)
           ELSE Action("Delete", NoSystem, <<>>, match, fields, FALSE),
           Action("DeleteExternalReference", external_system,
                  external_key.val, <<>>, fields, FALSE)>>
    ELSE <<Action("Delete", NoSystem, <<>>, match, fields, FALSE)>>

\* build, the delete request (lines 823-833).
build_delete(external_system, sa, match, external_key, fields) ==
    IF ~sa.delete THEN <<>>
    ELSE IF is_externally_mappable(external_system, external_key)
    THEN <<IF ~sa.force
           THEN Action("DeleteIfOnlyReference", external_system,
                       external_key.val, match, fields, FALSE)
           ELSE Action("Delete", NoSystem, <<>>, match, fields, FALSE),
           Action("DeleteExternalReference", external_system,
                  external_key.val, <<>>, fields, FALSE)>>
    ELSE IF sa.force
    THEN <<Action("Delete", NoSystem, <<>>, match, fields, FALSE)>>
    ELSE <<>>

\* build, the create request (lines 835-848).
build_create(external_system, force_init_instance, sa, match, external_key, fields) ==
    IF ~sa.create THEN <<>>
    ELSE IF is_externally_mappable(external_system, external_key)
    THEN <<Action("CreateWithReference", external_system, external_key.val,
                  match, fields, force_init_instance)>>
    ELSE <<Action("Create", external_system, <<>>, match, fields,
                  force_init_instance)>>

\* Faulty variant: the update is never forced.
build_update_Unforced(external_system, sa, match, external_key, fields) ==
    IF ~sa.update THEN <<>>
    ELSE IF is_externally_mappable(external_system, external_key)
    THEN <<Action("UpdateWithReference", external_system, external_key.val,
                  match, fields, FALSE)>>
    ELSE <<Action("Update", external_system, <<>>, match, fields, FALSE)>>

\* build, the update request (lines 849-865).
build_update(external_system, sa, match, external_key, fields) ==
    IF ~sa.update THEN <<>>
    ELSE IF is_externally_mappable(external_system, external_key)
    THEN <<Action("UpdateWithReference", external_system, external_key.val,
                  match, fields, sa.force)>>
    ELSE <<Action("Update", external_system, <<>>, match, fields, sa.force)>>

build(external_system, force_init_instance, sa, match, external_key, fields) ==
    build_impotent(sa, match, fields)
    \o build_delete(external_system, sa, match, external_key, fields)
    \o build_create(external_system, force_init_instance, sa, match,
                    external_key, fields)
    \o build_update(external_system, sa, match, external_key, fields)

\* A raw input row: action_flags, match_on, external_key and the field
\* directives.
Row(flags, match, key, fields) ==
    [flags |-> flags, match |-> match, key |-> key, fields |-> fields]

\* from_dict: the action group, or the ValueError of SyncActions, or the
\* ValueError of the ObjectSelector that the first action built constructs.
from_dict(external_system, force_init_instance, row) ==
    LET sa == decode(row.flags) IN
    IF SyncActionsInvalid(sa) THEN [exc |-> "ValueError", group |-> <<>>]
    ELSE IF row.match # <<>> /\ ObjectSelector_init(row.match, row.fields)
    THEN [exc |-> "ValueError", group |-> <<>>]
    ELSE [exc |-> "",
          group |-> build(external_system, force_init_instance, sa,
                          row.match, row.key, row.fields)]

\* The type property of an action.
type(a) ==
    CASE a.cls = "ModelAction" -> ""
      [] a.cls \in {"Create", "CreateWithReference"} -> "create"
      [] a.cls \in {"Update", "UpdateWithReference"} -> "update"
      [] OTHER -> "delete"

\* row_action_types of execute_actions: the distinct types of a row's
\* actions.
row_action_types(group) == {type(group[j]) : j \in 1..Len(group)}

\* action.execute(use_bulk=False)
execute(db, a) ==
    CASE a.cls = "ModelAction" -> ModelAction_execute(db)
      [] a.cls = "Create" ->
            CreateModelAction_execute(db, a.match, a.fields, a.flag)
      [] a.cls = "CreateWithReference" ->
            CreateModelWithReferenceAction_execute(
                db, a.sys, a.key, a.match, a.fields, a.flag)
      [] a.cls = "Update" ->
            UpdateModelAction_execute(db, a.match, a.fields, a.flag)
      [] a.cls = "UpdateWithReference" ->
            UpdateModelWithReferenceAction_execute(
                db, a.sys, a.key, a.match, a.fields, a.flag)
      [] a.cls = "Delete" ->
            DeleteModelAction_execute(db, NoObj, a.match, a.fields)
      [] a.cls = "DeleteIfOnlyReference" ->
            DeleteIfOnlyReferenceModelAction_execute(
                db, a.sys, a.key, a.match, a.fields)
      [] OTHER -> DeleteExternalReferenceAction_execute(db, a.sys, a.key)

-----------------------------------------------------------------------------
(* BasicSyncPolicy.execute_actions: every action of every row in order; an  *)
(* exception out of an action or out of the row's decoding ends the run.    *)

\* The actions of one group from the i-th on; rets collects what each
\* execute() returned.
RECURSIVE execute_group(_, _, _, _)

\* The i-th action of the group returned or raised r.
group_next(r, group, i, rets) ==
    IF r.exc # "" THEN [db |-> r.db, rets |-> rets, exc |-> r.exc]
    ELSE execute_group(r.db, group, i + 1, Append(rets, r.ret))

execute_group(db, group, i, rets) ==
    IF i > Len(group) THEN [db |-> db, rets |-> rets, exc |-> ""]
    ELSE group_next(execute(db, group[i]), group, i, rets)

\* The rows from the i-th on; trace collects, per finished row, its group,
\* the returned records and the stores after it.
RECURSIVE execute_actions(_, _, _, _, _, _)

\* The group of the i-th row ended as g.
rows_next(g, group, external_system, finit, rows, i, trace) ==
    IF g.exc # "" THEN [db |-> g.db, trace |-> trace, exc |-> g.exc]
    ELSE execute_actions(external_system, finit, g.db, rows, i + 1,
                         Append(trace, [group |-> group, rets |-> g.rets,
                                        db |-> g.db]))

\* The i-th row decoded as fd.
row_built(fd, external_system, finit, db, rows, i, trace) ==
    IF fd.exc # "" THEN [db |-> db, trace |-> trace, exc |-> fd.exc]
    ELSE rows_next(execute_group(db, fd.group, 1, <<>>), fd.group,
                   external_system, finit, rows, i, trace)

execute_actions(external_system, finit, db, rows, i, trace) ==
    IF i > Len(rows) THEN [db |-> db, trace |-> trace, exc |-> ""]
    ELSE row_built(from_dict(external_system, finit, rows[i]),
                   external_system, finit, db, rows, i, trace)

-----------------------------------------------------------------------------
(* The action object the caller holds: its class, its constructor          *)
(* arguments, what execute() returned or raised, and the stores it started  *)
(* from. The caller drops it (Idle) before it builds the next one.          *)
NoFields == [name |-> ""]

Idle == [op |-> "idle", sys |-> "", key |-> <<>>, match |-> <<>>,
         fields |-> NoFields, flag |-> FALSE, ret |-> NoObj, exc |-> "",
         already |-> FALSE, pre |-> Db(<<>>, {}, 1)]

Op(op, sys, key, match, fields, flag, r) ==
    [op |-> op, sys |-> sys, key |-> key, match |-> match, fields |-> fields,
     flag |-> flag, ret |-> r.ret, exc |-> r.exc, already |-> r.already,
     pre |-> CurDb]

\* Commit the result of an execute(); the guard caps the primary keys.
Commit(r, rec) ==
    /\ last = Idle
    /\ r.db.nextId <= MaxId + 1
    /\ store' = r.db.store
    /\ maps' = r.db.maps
    /\ nextId' = r.db.nextId
    /\ last' = rec
    /\ UNCHANGED cascade

Init ==
    /\ store = <<>>
    /\ maps = {}
    /\ nextId = 1
    /\ cascade \in Cascades
    /\ last = Idle

Create ==
    \E match \in MatchSpecs, fields \in FieldSets, finit \in BOOLEAN :
        LET r == CreateModelAction_execute(CurDb, match, fields, finit)
        IN  Commit(r, Op("Create", "", <<>>, match, fields, finit, r))

CreateWithReference ==
    \E sys \in Systems, key \in Keys, match \in MatchSpecs,
       fields \in FieldSets, finit \in BOOLEAN :
        LET r == CreateModelWithReferenceAction_execute(
                     CurDb, sys, key, match, fields, finit)
        IN  Commit(r, Op("CreateWithReference", sys, key, match, fields,
                         finit, r))

Update ==
    \E match \in MatchSpecs, fields \in FieldSets, force \in BOOLEAN :
        LET r == UpdateModelAction_execute(CurDb, match, fields, force)
        IN  Commit(r, Op("Update", "", <<>>, match, fields, force, r))

UpdateWithReference ==
    \E sys \in Systems, key \in Keys, match \in MatchSpecs,
       fields \in FieldSets, force \in BOOLEAN :
        LET r == UpdateModelWithReferenceAction_execute(
                     CurDb, sys, key, match, fields, force)
        IN  Commit(r, Op("UpdateWithReference", sys, key, match, fields,
                         force, r))

Delete ==
    \E match \in MatchSpecs, fields \in FieldSets :
        LET r == DeleteModelAction_execute(CurDb, NoObj, match, fields)
        IN  Commit(r, Op("Delete", "", <<>>, match, fields, FALSE, r))

DeleteIfOnlyReference ==
    \E sys \in Systems, key \in Keys, match \in MatchSpecs,
       fields \in FieldSets :
        LET r == DeleteIfOnlyReferenceModelAction_execute(
                     CurDb, sys, key, match, fields)
        IN  Commit(r, Op("DeleteIfOnlyReference", sys, key, match, fields,
                         FALSE, r))

DeleteExternalReference ==
    \E sys \in Systems, key \in Keys :
        LET r == DeleteExternalReferenceAction_execute(CurDb, sys, key)
        IN  Commit(r, Op("DeleteExternalReference", sys, key, <<>>, NoFields,
                         FALSE, r))

NoOp ==
    LET r == ModelAction_execute(CurDb)
    IN  Commit(r, Op("ModelAction", "", <<>>, <<>>, NoFields, FALSE, r))

\* The finished action object goes out of scope.
Discard ==
    /\ last # Idle
    /\ last' = Idle
    /\ UNCHANGED <<store, maps, nextId, cascade>>

Next ==
    \/ Discard
    \/ Create
    \/ CreateWithReference
    \/ Update
    \/ UpdateWithReference
    \/ Delete
    \/ DeleteIfOnlyReference
    \/ DeleteExternalReference
    \/ NoOp

Spec == Init /\ [][Next]_vars

-----------------------------------------------------------------------------
(* Runs of the immediate policy over an input file, for a factory with or  *)
(* without an external system.                                             *)
FactorySystems == Systems \cup {NoSystem}

FlagStrings ==
    {<<>>, <<"c">>, <<"u">>, <<"c", "u">>, <<"d">>, <<"d", "*">>,
     <<"u", "*">>, <<"c", "d">>}

RowKeys == {NoKey, StrKey(<<" ">>), StrKey(K1)}

Rows ==
    {Row(f, m, k, fs) :
        f \in FlagStrings, m \in MatchSpecs, k \in RowKeys, fs \in FieldSets}

\* An input file: one row, or the same row twice.
Files == {<<r>> : r \in Rows} \cup {<<r, r>> : r \in Rows}

IdleRun == [op |-> "idle", sys |-> NoSystem, finit |-> FALSE, rows |-> <<>>,
            trace |-> <<>>, exc |-> "", pre |-> Db(<<>>, {}, 1)]

InitPolicy ==
    /\ store = <<>>
    /\ maps = {}
    /\ nextId = 1
    /\ cascade \in Cascades
    /\ last = IdleRun

\* The run ended as r; the guard caps the primary keys.
PolicyRan(r, sys, finit, rows) ==
    /\ last = IdleRun
    /\ r.db.nextId <= MaxRunId + 1
    /\ store' = r.db.store
    /\ maps' = r.db.maps
    /\ nextId' = r.db.nextId
    /\ last' = [op |-> "policy", sys |-> sys, finit |-> finit,
                rows |-> rows, trace |-> r.trace, exc |-> r.exc,
                pre |-> CurDb]
    /\ UNCHANGED cascade

BasicSyncPolicy_execute ==
    \E sys \in FactorySystems, finit \in BOOLEAN, rows \in Files :
        PolicyRan(execute_actions(sys, finit, CurDb, rows, 1, <<>>),
                  sys, finit, rows)

\* The finished policy object goes out of scope.
DiscardRun ==
    /\ last # IdleRun
    /\ last' = IdleRun
    /\ UNCHANGED <<store, maps, nextId, cascade>>

NextPolicy ==
    \/ DiscardRun
    \/ BasicSyncPolicy_execute

SpecPolicy == InitPolicy /\ [][NextPolicy]_vars

-----------------------------------------------------------------------------
(* Properties of the single actions, under Spec.                           *)

Pre == last.pre
MapsTo(ms, R) == {m \in ms : m.oid = R}
\* The value a row's directive leaves in attribute a.
Written(a, fields) == IF a = "email" /\ fields[a] = "" THEN NONE ELSE fields[a]
Directives == DOMAIN last.fields
\* The action aims at record R: it has no match specification and its
\* mapping points at R, or its match specification matches R alone.
AimsAt(R) ==
    IF last.match = <<>>
    THEN Mapping(last.sys, last.key, R) \in Pre.maps
    ELSE Matching(Pre, last.match, last.fields) = {R}

\* C2: DeleteIfOnlyReference never deletes a record R while a mapping of
\* another external system still points at R, for equal or different keys,
\* with or without a match specification.
C2_KeptWhileOtherSystemRefers ==
    last.op = "DeleteIfOnlyReference" =>
        \A R \in DOMAIN Pre.store :
            (/\ Mapping(last.sys, last.key, R) \in Pre.maps
             /\ \E m \in Pre.maps : m.oid = R /\ m.sys # last.sys)
            => R \in DOMAIN store

\* C3: when the mapping (system1, key1) -> R is the only mapping of R,
\* DeleteIfOnlyReference for (system1, key1) aimed at R deletes R.
C3_DeletedWhenOnlyReference ==
    last.op = "DeleteIfOnlyReference" =>
        \A R \in DOMAIN Pre.store :
            (MapsTo(Pre.maps, R) = {Mapping(last.sys, last.key, R)} /\ AimsAt(R))
            => (R \notin DOMAIN store /\ last.ret = R)

C3_Witness ==
    /\ last.op = "DeleteIfOnlyReference"
    /\ \E R \in DOMAIN Pre.store :
        /\ MapsTo(Pre.maps, R) = {Mapping(last.sys, last.key, R)}
        /\ AimsAt(R)
        /\ last.match # <<>>
        /\ R \notin DOMAIN store

Unchanged ==
    store = Pre.store /\ maps = Pre.maps /\ nextId = Pre.nextId

\* Exactly one record was added, under id, carrying the row's directives.
CreatedAs(id) ==
    /\ id = Pre.nextId
    /\ id \notin DOMAIN Pre.store
    /\ DOMAIN store = DOMAIN Pre.store \cup {id}
    /\ \A i \in DOMAIN Pre.store : store[i] = Pre.store[i]
    /\ \A a \in Directives : store[id][a] = Written(a, last.fields)
    /\ \A a \in Attrs \ Directives : store[id][a] = NewObj[a]

\* C7: Create with a match specification and force_init_instance off returns
\* the one matching record unchanged, flagged as already existing, and
\* creates nothing; when none matches it persists exactly one new record
\* carrying the row's directives. Without a match specification, or with
\* force_init_instance on, it always creates a new record.
C7_CreateOrReturn ==
    last.op = "Create" =>
        LET ids == Matching(Pre, last.match, last.fields) IN
        /\ maps = Pre.maps
        /\ last.exc = ""
        /\ IF last.match # <<>> /\ ~last.flag
           THEN /\ Cardinality(ids) = 1 =>
                      (last.ret \in ids /\ last.already /\ Unchanged)
                /\ ids = {} => (CreatedAs(last.ret) /\ ~last.already)
           ELSE CreatedAs(last.ret) /\ ~last.already

\* The match specification found the one record and Create returned it.
C7_Witness ==
    /\ last.op = "Create"
    /\ last.match # <<>>
    /\ ~last.flag
    /\ Cardinality(Matching(Pre, last.match, last.fields)) = 1
    /\ Cardinality(DOMAIN Pre.store) = 2
    /\ last.already

\* C8: Update and Delete never create a record; on a match specification
\* that matches no record Update returns none and leaves both stores
\* unchanged, and Delete deletes nothing and raises no error.
C8_NoMatchIsNoOp ==
    /\ last.op \in {"Update", "Delete"} =>
          (DOMAIN store \subseteq DOMAIN Pre.store /\ nextId = Pre.nextId)
    /\ (/\ last.op \in {"Update", "Delete"}
        /\ last.match # <<>>
        /\ Matching(Pre, last.match, last.fields) = {}) =>
          (last.ret = NoObj /\ last.exc = "" /\ Unchanged)

C8_Witness ==
    /\ last.op = "Update"
    /\ last.match # <<>>
    /\ Matching(Pre, last.match, last.fields) = {}
    /\ Pre.store # <<>>
    /\ Pre.maps # {}
    /\ last.ret = NoObj

ManyMatch ==
    last.match # <<>>
    /\ Cardinality(Matching(Pre, last.match, last.fields)) > 1

\* C9 as stated: when the match specification matches more than one record,
\* Create, Update, reference-aware Update, Delete and DeleteIfOnlyReference
\* return none, change nothing and raise nothing.
C9_ManyMatchesAsStated ==
    (/\ last.op \in {"Create", "Update", "UpdateWithReference", "Delete",
                     "DeleteIfOnlyReference"}
     /\ ManyMatch) =>
        (last.ret = NoObj /\ last.exc = "" /\ Unchanged)

\* C9 as amended: the same, for Create only with force_init_instance off.
C9_ManyMatches ==
    (/\ last.op \in {"Create", "Update", "UpdateWithReference", "Delete",
                     "DeleteIfOnlyReference"}
     /\ ManyMatch
     /\ (last.op = "Create" => ~last.flag)) =>
        (last.ret = NoObj /\ last.exc = "" /\ Unchanged)

\* A reference-aware Update with a linked record met several matches.
C9_Witness ==
    /\ last.op = "UpdateWithReference"
    /\ ManyMatch
    /\ \E m \in Pre.maps :
          m.sys = last.sys /\ m.key = last.key /\ m.oid \in DOMAIN Pre.store
    /\ last.ret = NoObj

Linked == {m \in Pre.maps : /\ m.sys = last.sys
                            /\ m.key = last.key
                            /\ m.oid \in DOMAIN Pre.store}

BaseCreate == CreateModelAction_execute(Pre, last.match, last.fields, last.flag)

\* C10 as stated: reference-aware Create returns the record its mapping
\* already links to, unchanged, and creates nothing; otherwise the base
\* Create runs; whenever a record r is returned the mapping exists
\* afterwards and points at r.
C10_CreateWithReferenceAsStated ==
    last.op = "CreateWithReference" =>
        /\ \A m \in Linked :
              last.ret = m.oid /\ store = Pre.store /\ nextId = Pre.nextId
        /\ Linked = {} =>
              (store = BaseCreate.db.store /\ nextId = BaseCreate.db.nextId)
        /\ last.ret # NoObj =>
              LookupMapping(maps, last.sys, last.key)
                  = {Mapping(last.sys, last.key, last.ret)}

\* C10 as amended: the linked record is returned only with
\* force_init_instance off; with it on the mapping is not looked up and the
\* base Create always runs.
C10_CreateWithReference ==
    last.op = "CreateWithReference" =>
        /\ ~last.flag =>
              \A m \in Linked :
                  last.ret = m.oid /\ Unchanged
        /\ (Linked = {} \/ last.flag) =>
              (store = BaseCreate.db.store /\ nextId = BaseCreate.db.nextId)
        /\ last.ret # NoObj =>
              LookupMapping(maps, last.sys, last.key)
                  = {Mapping(last.sys, last.key, last.ret)}

\* The mapping links one record while the match specification matches
\* another; the linked one is returned.
C10_Witness ==
    /\ last.op = "CreateWithReference"
    /\ ~last.flag
    /\ \E m \in Linked :
          /\ Cardinality(Matching(Pre, last.match, last.fields)) = 1
          /\ m.oid \notin Matching(Pre, last.match, last.fields)
          /\ last.ret = m.oid

LinkedIds == {m.oid : m \in Linked}
Matched == Matching(Pre, last.match, last.fields)

\* Record id carries the directives of the action applied to what it held.
UpdatedFrom(id) ==
    \A a \in Attrs :
        store[id][a] =
            IF a \in Directives
               /\ (last.flag \/ Pre.store[id][a] \in {NONE, ""})
            THEN Written(a, last.fields)
            ELSE Pre.store[id][a]

\* Record id was updated and returned and the mapping points at it; no
\* other record changed.
UpdatedAndMapped(id) ==
    /\ last.ret = id
    /\ id \in DOMAIN store
    /\ UpdatedFrom(id)
    /\ \A j \in DOMAIN store \ {id} : store[j] = Pre.store[j]
    /\ LookupMapping(maps, last.sys, last.key)
           = {Mapping(last.sys, last.key, id)}

\* C11: a reference-aware Update with a match specification that matches at
\* most one record: when the linked record L and the matched record M both
\* exist and differ, M is deleted, the directives go to L and the mapping
\* still points at L; when only one of them exists it is updated and the
\* mapping points at it; when neither exists none is returned and no
\* record and no mapping changes.
C11_ReferenceAwareUpdate ==
    (/\ last.op = "UpdateWithReference"
     /\ last.match # <<>>
     /\ Cardinality(Matched) <= 1) =>
        /\ last.exc = ""
        /\ \A l \in LinkedIds : \A m \in Matched :
              l # m => (/\ DOMAIN store = DOMAIN Pre.store \ {m}
                        /\ UpdatedAndMapped(l))
        /\ \A t \in LinkedIds \cup Matched :
              LinkedIds \cup Matched = {t} =>
                  (DOMAIN store = DOMAIN Pre.store /\ UpdatedAndMapped(t))
        /\ LinkedIds \cup Matched = {} => (last.ret = NoObj /\ Unchanged)

\* The linked and the matched record differed; the matched one is gone and
\* the linked one took a value from the row.
C11_Witness ==
    /\ last.op = "UpdateWithReference"
    /\ \E l \in LinkedIds : \E m \in Matched :
          /\ l # m
          /\ m \notin DOMAIN store
          /\ last.ret = l
          /\ store[l] # Pre.store[l]

-----------------------------------------------------------------------------
(* Field updates on rows with both columns: plain Create and Update over a  *)
(* store without mappings.                                                  *)
CreateWide ==
    \E fields \in WideFieldSets :
        LET r == CreateModelAction_execute(CurDb, <<>>, fields, FALSE)
        IN  Commit(r, Op("Create", "", <<>>, <<>>, fields, FALSE, r))

UpdateWide ==
    \E match \in WideMatchSpecs, fields \in WideFieldSets, force \in BOOLEAN :
        LET r == UpdateModelAction_execute(CurDb, match, fields, force)
        IN  Commit(r, Op("Update", "", <<>>, match, fields, force, r))

NextFields ==
    \/ Discard
    \/ CreateWide
    \/ UpdateWide

SpecFields == Init /\ [][NextFields]_vars

\* C6: a field update with force off leaves every non-empty attribute
\* (neither null nor "") as it was; with force on every attribute of the
\* row is overwritten with the incoming value (null for "" on a nullable
\* field); Create applies its directives with force on.
C6_ForceSemantics ==
    /\ (last.op \in {"Update", "UpdateWithReference"} /\ last.ret # NoObj) =>
          IF last.flag
          THEN \A a \in Directives :
                  store[last.ret][a] = Written(a, last.fields)
          ELSE \A a \in Directives :
                  (Pre.store[last.ret][a] # NONE /\ Pre.store[last.ret][a] # "")
                  => store[last.ret][a] = Pre.store[last.ret][a]
    /\ (/\ last.op \in {"Create", "CreateWithReference"}
        /\ last.ret # NoObj
        /\ last.ret \notin DOMAIN Pre.store) =>
          \A a \in Directives : store[last.ret][a] = Written(a, last.fields)

\* An unforced update met a non-empty value that differs from the incoming
\* one and kept it.
C6_Witness ==
    /\ last.op = "Update"
    /\ ~last.flag
    /\ last.ret # NoObj
    /\ Pre.store[last.ret].email = "x"
    /\ last.fields.email = "y"
    /\ store[last.ret].email = "x"

-----------------------------------------------------------------------------
(* Properties of runs of the immediate policy, under SpecPolicy.           *)

\* The run fed the policy the same create row twice, with an external
\* system and an externally mappable key.
SameCreateRowTwice ==
    /\ last.op = "policy"
    /\ last.sys # NoSystem
    /\ Len(last.rows) = 2
    /\ last.rows[1] = last.rows[2]
    /\ last.rows[1].flags = <<"c">>
    /\ is_externally_mappable(last.sys, last.rows[1].key)

RowKey == last.rows[1].key.val
CreatedByRun == DOMAIN store \ DOMAIN Pre.store

\* Both rows ran; the second one created no record and no mapping, one
\* mapping row for (system, key) exists, it points at an existing record,
\* and the two rows created at most one record.
OneRecordOneMapping ==
    /\ last.exc = ""
    /\ Len(last.trace) = 2
    /\ last.trace[2].db = last.trace[1].db
    /\ Cardinality(CreatedByRun) <= 1
    /\ \E R \in DOMAIN store : LookupMapping(maps, last.sys, RowKey)
                                   = {Mapping(last.sys, RowKey, R)}

\* C1 as stated: the same create row with a non-blank external key, run
\* twice by the immediate policy with an external system, leaves one record
\* of that row and one mapping row for (system, key) pointing at it; the
\* second run creates no record and no mapping.
C1_IdempotentCreateAsStated == SameCreateRowTwice => OneRecordOneMapping

\* C1 amended: with force_init_instance off both rows run without an
\* exception, the second one creates no record and no mapping and leaves
\* the stores as the first one left them, and at most one record is
\* created; when the first row returned a record R, the second one returns
\* R too, R exists and exactly one mapping row for (system, key) exists and
\* points at R.
C1_IdempotentCreate ==
    (SameCreateRowTwice /\ ~last.finit) =>
        /\ last.exc = ""
        /\ Len(last.trace) = 2
        /\ last.trace[2].db = last.trace[1].db
        /\ Cardinality(CreatedByRun) <= 1
        /\ LET R == last.trace[1].rets[1] IN
           R # NoObj =>
               /\ last.trace[2].rets[1] = R
               /\ R \in DOMAIN store
               /\ LookupMapping(maps, last.sys, RowKey)
                      = {Mapping(last.sys, RowKey, R)}

C1_Witness ==
    /\ SameCreateRowTwice
    /\ ~last.finit
    /\ last.exc = ""
    /\ Len(last.trace) = 2
    /\ LET R == last.trace[1].rets[1] IN
       /\ R # NoObj
       /\ R \notin DOMAIN Pre.store
       /\ last.trace[2].rets[1] = R
       /\ maps = Pre.maps \cup {Mapping(last.sys, RowKey, R)}

\* C5: after the immediate policy has run the action group of a delete row
\* with an externally mappable key, no mapping row exists for (system, key),
\* whether the record was deleted, kept, not found or matched several
\* times.
C5_MappingCleanup ==
    last.op = "policy" =>
        \A i \in 1..Len(last.rows) :
            (/\ decode(last.rows[i].flags).delete
             /\ ~SyncActionsInvalid(decode(last.rows[i].flags))
             /\ is_externally_mappable(last.sys, last.rows[i].key))
            => LookupMapping(maps, last.sys, last.rows[i].key.val) = {}

-----------------------------------------------------------------------------
(* Several external systems withdraw a record: runs of the immediate       *)
(* policy that create and map records, then the choice of a mapped record   *)
(* R, then runs of single unforced delete rows. The caller keeps R, the     *)
(* mapping rows that pointed at R (refs), those whose delete row has run    *)
(* (ran), whether one of these rows selected something else than R (stray)  *)
(* and whether R outlived one of them (kept).                               *)
DeleteKeys == {StrKey(K1), StrKey(K2)}

CreateRows ==
    {Row(<<"c">>, m, k, fs) :
        m \in MatchSpecs, k \in DeleteKeys, fs \in FieldSets}

DeleteRows ==
    {Row(<<"d">>, <<>>, k, NoFields) : k \in DeleteKeys}
    \cup {Row(<<"d">>, <<"name">>, k, fs) :
              k \in DeleteKeys, fs \in FieldSets}

Populating == [op |-> "populate", R |-> NoObj, refs |-> {}, ran |-> {},
               stray |-> FALSE, kept |-> FALSE]

InitDelete ==
    /\ store = <<>>
    /\ maps = {}
    /\ nextId = 1
    /\ cascade \in Cascades
    /\ last = Populating

\* The stores after a run of the policy; the guard caps the primary keys.
Stored(db) ==
    /\ db.nextId <= MaxRunId + 1
    /\ store' = db.store
    /\ maps' = db.maps
    /\ nextId' = db.nextId
    /\ UNCHANGED cascade

Populate ==
    \E sys \in Systems, row \in CreateRows :
        /\ Stored(execute_actions(sys, FALSE, CurDb, <<row>>, 1, <<>>).db)
        /\ last' = Populating

\* The systems set out to withdraw record R.
Withdraw ==
    \E R \in DOMAIN store :
        /\ last.op = "populate"
        /\ MapsTo(maps, R) # {}
        /\ last' = [op |-> "withdraw", R |-> R, refs |-> MapsTo(maps, R),
                    ran |-> {}, stray |-> FALSE, kept |-> FALSE]
        /\ UNCHANGED <<store, maps, nextId, cascade>>

\* The row selects R alone: it has no match specification, or its match
\* specification finds R and nothing else (nothing once R is gone).
RowAimsAt(db, row, R) ==
    \/ row.match = <<>>
    \/ Matching(db, row.match, row.fields) = {R} \cap DOMAIN db.store

\* A delete row of system sys ran and left the stores db.
DeleteRan(db, sys, row, mine) ==
    /\ last.op # "populate"
    /\ Stored(db)
    /\ last' = [last EXCEPT
                    !.op = "delete",
                    !.ran = @ \cup mine,
                    !.stray = @ \/ (mine # {}
                                    /\ ~RowAimsAt(CurDb, row, last.R)),
                    !.kept = @ \/ (mine # {} /\ last.R \in DOMAIN db.store)]

RunDeleteGroup ==
    \E sys \in Systems, row \in DeleteRows :
        DeleteRan(execute_actions(sys, FALSE, CurDb, <<row>>, 1, <<>>).db,
                  sys, row,
                  {m \in last.refs : m.sys = sys /\ m.key = row.key.val})

NextDelete ==
    \/ Populate
    \/ Withdraw
    \/ RunDeleteGroup

SpecDelete == InitDelete /\ [][NextDelete]_vars

Withdrawn(R) == R \notin DOMAIN store /\ MapsTo(maps, R) = {}

\* C4 as stated: once every external system holding a mapping to R has run
\* its unforced delete group (DeleteIfOnlyReference, DeleteExternalReference)
\* for its own key, in any order, R is deleted and none of those mapping
\* rows remains.
C4_AllReferrersWithdrawAsStated ==
    (last.op = "delete" /\ last.ran = last.refs) => Withdrawn(last.R)

\* C4 amended: the same, for delete rows that aim at R, each having no
\* match specification or one that selects R alone.
C4_AllReferrersWithdraw ==
    (last.op = "delete" /\ last.ran = last.refs /\ ~last.stray)
        => Withdrawn(last.R)

C4_Witness ==
    /\ last.op = "delete"
    /\ last.ran = last.refs
    /\ ~last.stray
    /\ {m.sys : m \in last.refs} = Systems
    /\ last.kept
    /\ Withdrawn(last.R)

-----------------------------------------------------------------------------
(* Runs of the immediate policy over one row with both columns.            *)
WideFlagStrings == {<<"c">>, <<"u">>, <<"c", "u">>}

WideRows ==
    {Row(f, m, StrKey(K1), fs) :
        f \in WideFlagStrings, m \in WideMatchSpecs, fs \in WideFieldSets}

SyncWideRow ==
    \E sys \in Systems, finit \in BOOLEAN, row \in WideRows :
        PolicyRan(execute_actions(sys, finit, CurDb, <<row>>, 1, <<>>),
                  sys, finit, <<row>>)

NextWideRow ==
    \/ DiscardRun
    \/ SyncWideRow

SpecWideRow == InitPolicy /\ [][NextWideRow]_vars

\* The run fed the policy one create+update row with a match specification
\* and a mappable key, against an empty store.
CreateUpdateRowOnEmpty ==
    /\ last.op = "policy"
    /\ Pre.store = <<>>
    /\ Pre.maps = {}
    /\ Len(last.rows) = 1
    /\ last.rows[1].flags = <<"c", "u">>
    /\ Len(last.rows[1].match) = 1
    /\ last.sys \in Systems
    /\ last.rows[1].key = StrKey(K1)

\* C12: a 'cu' row with a one-field match specification and a mappable
\* key, run by the immediate policy against an empty store with external
\* system S, leaves exactly one record holding every field value of the
\* row and exactly one mapping (S, key) pointing at it; the update of the
\* row creates no second record and no second mapping.
C12_CreateUpdateRow ==
    CreateUpdateRowOnEmpty =>
        /\ last.exc = ""
        /\ \E R \in DOMAIN store :
              /\ DOMAIN store = {R}
              /\ \A a \in DOMAIN last.rows[1].fields :
                    store[R][a] = Written(a, last.rows[1].fields)
              /\ maps = {Mapping(last.sys, RowKey, R)}
              /\ last.trace[1].rets = <<R, R>>
        /\ nextId = Pre.nextId + 1

C12_Witness ==
    /\ CreateUpdateRowOnEmpty
    /\ last.rows[1].match = <<"email">>
    /\ last.rows[1].fields.name = "a"
    /\ last.rows[1].fields.email = "x"
    /\ DOMAIN store = {1}
    /\ store[1].name = "a"
    /\ store[1].email = "x"
    /\ maps = {Mapping(last.sys, RowKey, 1)}

-----------------------------------------------------------------------------
(* The factory builds the group of one request, the caller executes it.    *)

\* The requests SyncActions accepts.
Requests ==
    {sa \in [create : BOOLEAN, delete : BOOLEAN, force : BOOLEAN,
             update : BOOLEAN] : ~SyncActionsInvalid(sa)}

\* None, the empty string, blanks, two mappable strings, a number.
BuildKeys ==
    {NoKey, StrKey(<<>>), StrKey(<<" ">>), StrKey(K1), StrKey(<<" ", "k">>),
     [kind |-> "int", val |-> <<"7">>]}

BuildFields == {[name |-> "a"]}

NoGroup == [op |-> "idle", sys |-> NoSystem, finit |-> FALSE,
            sa |-> decode(<<>>),
            match |-> <<>>, key |-> NoKey, fields |-> NoFields,
            group |-> <<>>, rets |-> <<>>, exc |-> "",
            pre |-> Db(<<>>, {}, 1)]

InitBuild ==
    /\ store = <<>>
    /\ maps = {}
    /\ nextId = 1
    /\ cascade \in Cascades
    /\ last = NoGroup

ActionFactory_build ==
    \E sys \in FactorySystems, finit \in BOOLEAN, sa \in Requests,
       match \in MatchSpecs, key \in BuildKeys, fields \in BuildFields :
        /\ last = NoGroup
        /\ last' = [NoGroup EXCEPT
                        !.op = "built", !.sys = sys, !.finit = finit,
                        !.sa = sa, !.match = match, !.key = key,
                        !.fields = fields,
                        !.group = build(sys, finit, sa, match, key, fields),
                        !.pre = CurDb]
        /\ UNCHANGED <<store, maps, nextId, cascade>>

\* The built group ran and ended as g; the guard caps the primary keys.
GroupRan(g) ==
    /\ last.op = "built"
    /\ g.db.nextId <= MaxRunId
    /\ store' = g.db.store
    /\ maps' = g.db.maps
    /\ nextId' = g.db.nextId
    /\ last' = [last EXCEPT !.op = "ran", !.rets = g.rets, !.exc = g.exc]
    /\ UNCHANGED cascade

ExecuteBuilt == GroupRan(execute_group(CurDb, last.group, 1, <<>>))

\* The group goes out of scope.
DiscardGroup ==
    /\ last.op \in {"built", "ran"}
    /\ last' = NoGroup
    /\ UNCHANGED <<store, maps, nextId, cascade>>

NextBuild ==
    \/ ActionFactory_build
    \/ ExecuteBuilt
    \/ DiscardGroup

SpecBuild == InitBuild /\ [][NextBuild]_vars

\* The factory has built the group of a request.
Built == last.op \in {"built", "ran"}

\* The classes of the group's actions, in order.
Classes == [i \in 1..Len(last.group) |-> last.group[i].cls]

\* An external system is configured and the key is a string with a
\* character that is not white space.
MappableKey ==
    /\ last.sys # NoSystem
    /\ last.key.kind = "str"
    /\ \E i \in 1..Len(last.key.val) : last.key.val[i] \notin Whitespace

\* The i-th action of the group refers to the factory's system and the
\* request's key.
Refers(i) ==
    last.group[i].sys = last.sys /\ last.group[i].key = last.key.val

\* The i-th action of the group carries the request's match specification
\* and fields.
Carries(i) ==
    last.group[i].match = last.match /\ last.group[i].fields = last.fields

\* C13: for a delete request with a mappable key that is not forced, build
\* returns exactly [DeleteIfOnlyReference wrapping the Delete,
\* DeleteExternalReference] in that order; for a forced delete with a key
\* that is not mappable it returns exactly [plain Delete].
C13_BuildDelete ==
    (Built /\ last.sa.delete) =>
        /\ (MappableKey /\ ~last.sa.force) =>
              /\ Classes = <<"DeleteIfOnlyReference",
                             "DeleteExternalReference">>
              /\ Refers(1) /\ Carries(1) /\ Refers(2)
        /\ (~MappableKey /\ last.sa.force) =>
              (Classes = <<"Delete">> /\ Carries(1))

C13_Witness ==
    /\ last.op = "built"
    /\ last.sa.delete /\ ~last.sa.force
    /\ last.key = StrKey(<<" ", "k">>)
    /\ last.sys \in Systems
    /\ Classes = <<"DeleteIfOnlyReference", "DeleteExternalReference">>

\* C14 as stated: a forced delete request with a mappable key is still
\* wrapped in DeleteIfOnlyReference and followed by
\* DeleteExternalReference.
C14_ForcedMappableWrapped ==
    (Built /\ last.sa.delete /\ last.sa.force /\ MappableKey) =>
        Classes = <<"DeleteIfOnlyReference", "DeleteExternalReference">>

\* C14 amended: a forced delete request with a mappable key gives the plain
\* Delete, not wrapped, followed by DeleteExternalReference.
C14_ForcedMappablePlain ==
    (Built /\ last.sa.delete /\ last.sa.force /\ MappableKey) =>
        /\ Classes = <<"Delete", "DeleteExternalReference">>
        /\ Carries(1)
        /\ Refers(2)

C14_Witness ==
    /\ last.op = "built"
    /\ last.sa.delete /\ last.sa.force
    /\ MappableKey
    /\ last.match # <<>>
    /\ Classes = <<"Delete", "DeleteExternalReference">>

\* C15: build uses the reference-aware Create and Update exactly when the
\* key is mappable (a system is configured and the key is a string that is
\* neither empty nor blank) and the plain ones otherwise; the Create comes
\* before the Update, and the Update is forced exactly when the request is.
C15_BuildCreateUpdate ==
    (Built /\ (last.sa.create \/ last.sa.update)) =>
        /\ Classes =
              (IF last.sa.create
               THEN <<IF MappableKey THEN "CreateWithReference"
                                     ELSE "Create">>
               ELSE <<>>)
              \o (IF last.sa.update
                  THEN <<IF MappableKey THEN "UpdateWithReference"
                                        ELSE "Update">>
                  ELSE <<>>)
        /\ \A i \in 1..Len(last.group) :
              /\ Carries(i)
              /\ MappableKey => Refers(i)
              /\ last.group[i].cls \in {"Update", "UpdateWithReference"}
                    => last.group[i].flag = last.sa.force
              /\ last.group[i].cls \in {"Create", "CreateWithReference"}
                    => last.group[i].flag = last.finit

C15_Witness ==
    /\ last.op = "built"
    /\ last.sa.create /\ last.sa.update /\ last.sa.force
    /\ MappableKey
    /\ Classes = <<"CreateWithReference", "UpdateWithReference">>
    /\ last.group[2].flag

\* C16: for an impotent request, forced or not, build returns exactly one
\* action, the base no-op, and executing it changes neither the record
\* store nor the mapping store.
C16_ImpotentNoOp ==
    (/\ Built
     /\ ~last.sa.create /\ ~last.sa.update /\ ~last.sa.delete) =>
        /\ Classes = <<"ModelAction">>
        /\ last.op = "ran" =>
              /\ last.exc = ""
              /\ store = Pre.store
              /\ maps = Pre.maps
              /\ nextId = Pre.nextId

C16_Witness ==
    /\ last.op = "ran"
    /\ ~last.sa.create /\ ~last.sa.update /\ ~last.sa.delete
    /\ last.sa.force
    /\ store # <<>>
    /\ maps # {}
    /\ store = Pre.store

-----------------------------------------------------------------------------
(* The codec of action_flags: decoding a value of the action_flags column  *)
(* (None or a string) and encoding a request.                              *)
FlagChars == {"c", "C", "u", "U", "d", "D", "*", "x"}

RECURSIVE StringsUpTo(_)
StringsUpTo(n) ==
    IF n = 0 THEN {<<>>}
    ELSE LET shorter == StringsUpTo(n - 1) IN
         shorter \cup {Append(str, ch) : str \in shorter, ch \in FlagChars}

FlagValues == {NoKey} \cup {StrKey(str) : str \in StringsUpTo(MaxFlags)}

\* CsvSyncActionsDecoder.decode on a value: the request, or the ValueError
\* of SyncActions.
CsvSyncActionsDecoder_decode(action_flags) ==
    LET sa == IF action_flags.kind = "none" \/ action_flags.val = <<>>
              THEN decode(<<>>)
              ELSE decode(action_flags.val)
    IN  [exc |-> IF SyncActionsInvalid(sa) THEN "ValueError" ELSE "",
         sa |-> sa]

CsvSyncActionsEncoder_encode(sync_actions) ==
    (IF sync_actions.create THEN <<"c">> ELSE <<>>)
    \o (IF sync_actions.update THEN <<"u">> ELSE <<>>)
    \o (IF sync_actions.delete THEN <<"d">> ELSE <<>>)
    \o (IF sync_actions.force THEN <<"*">> ELSE <<>>)

\* What the caller holds: the value decoded or the text encoded, the
\* exception, the request, and the request decoded back from the text.
Codec(op, flags, exc, sa, back) ==
    [op |-> op, flags |-> flags, exc |-> exc, sa |-> sa, back |-> back]

NoCodec(op) == Codec(op, NoKey, "", decode(<<>>), decode(<<>>))

InitCodec ==
    /\ store = <<>>
    /\ maps = {}
    /\ nextId = 1
    /\ cascade \in Cascades
    /\ last = NoCodec("idle")

\* The decoder returned or raised d.
Decoded(d, action_flags) ==
    /\ last' = Codec("decoded", action_flags, d.exc, d.sa, decode(<<>>))
    /\ UNCHANGED <<store, maps, nextId, cascade>>

Decode ==
    /\ last.op = "idle"
    /\ \E action_flags \in FlagValues :
          Decoded(CsvSyncActionsDecoder_decode(action_flags), action_flags)

\* The text of a request was decoded as d.
Encoded(d, sa, text) ==
    /\ last' = Codec("encoded", StrKey(text), d.exc, sa, d.sa)
    /\ UNCHANGED <<store, maps, nextId, cascade>>

\* The attributes SyncActions.__init__ sets; it raises when delete comes
\* with create or update (SyncActionsInvalid).
SyncActions(create, update, delete, force) ==
    [create |-> create, delete |-> delete, force |-> force,
     update |-> update]

EncodeRequest(sa) ==
    /\ ~SyncActionsInvalid(sa)
    /\ Encoded(CsvSyncActionsDecoder_decode(
                   StrKey(CsvSyncActionsEncoder_encode(sa))),
               sa, CsvSyncActionsEncoder_encode(sa))

EncodeDecode ==
    /\ last.op = "idle"
    /\ \E create \in BOOLEAN, update \in BOOLEAN, delete \in BOOLEAN,
       force \in BOOLEAN :
        EncodeRequest(SyncActions(create, update, delete, force))

DiscardCodec ==
    /\ last.op # "idle"
    /\ last' = NoCodec("idle")
    /\ UNCHANGED <<store, maps, nextId, cascade>>

NextCodec ==
    \/ Decode
    \/ EncodeDecode
    \/ DiscardCodec

SpecCodec == InitCodec /\ [][NextCodec]_vars

\* The decoded value holds one of the characters chs.
Holds(chs) ==
    /\ last.flags.kind = "str"
    /\ \E i \in 1..Len(last.flags.val) : last.flags.val[i] \in chs

\* C17: decoding sets create, update, delete and force exactly when the
\* string holds c/C, u/U, d/D and *, in any order; an empty or missing
\* string gives the impotent request; delete together with create or
\* update is rejected with an error, so no request has delete set with
\* create or update; encoding a valid request and decoding the text gives
\* back its four flags.
C17_FlagsCodec ==
    /\ last.op = "decoded" =>
          IF Holds({"d", "D"}) /\ (Holds({"c", "C"}) \/ Holds({"u", "U"}))
          THEN last.exc = "ValueError"
          ELSE /\ last.exc = ""
               /\ last.sa.create = Holds({"c", "C"})
               /\ last.sa.update = Holds({"u", "U"})
               /\ last.sa.delete = Holds({"d", "D"})
               /\ last.sa.force = Holds({"*"})
    /\ (last.op \in {"decoded", "encoded"} /\ last.exc = "") =>
          ~(last.sa.delete /\ (last.sa.create \/ last.sa.update))
    /\ last.op = "encoded" =>
          /\ last.exc = ""
          /\ last.back.create = last.sa.create
          /\ last.back.update = last.sa.update
          /\ last.back.delete = last.sa.delete
          /\ last.back.force = last.sa.force

C17_Witness ==
    /\ last.op = "decoded"
    /\ last.flags = StrKey(<<"*", "U", "c">>)
    /\ last.sa.create /\ last.sa.update
    /\ ~last.sa.delete /\ last.sa.force


-----------------------------------------------------------------------------
(* ObjectSelector on its own: construction and get_by for every short      *)
(* match specification.                                                    *)
\* The table the selectors are evaluated on: one record for every way of
\* agreeing or not with a row on three fields.
SelectorAttrs == {"name", "email", "city"}
SelectorTable ==
    <<[city |-> "p", email |-> "x", name |-> "a"],
      [city |-> "p", email |-> "x", name |-> "b"],
      [city |-> "p", email |-> "y", name |-> "a"],
      [city |-> "p", email |-> "y", name |-> "b"],
      [city |-> "q", email |-> "x", name |-> "a"],
      [city |-> "q", email |-> "x", name |-> "b"],
      [city |-> "q", email |-> "y", name |-> "a"],
      [city |-> "q", email |-> "y", name |-> "b"]>>
SelectorRows == [city : {"p"}, email : {"x", "y"}, name : {"a"}]

\* match_on: up to MaxTokens tokens, each an operator, a field of the row,
\* or a name that is not a field of the row.
Tokens == SelectorAttrs \cup OPERATORS \cup {"zip"}

RECURSIVE TokensUpTo(_)
TokensUpTo(n) ==
    IF n = 1 THEN {<<t>> : t \in Tokens}
    ELSE LET shorter == TokensUpTo(n - 1) IN
         shorter \cup {Append(m, t) : m \in shorter, t \in Tokens}

SelectorSpecs == TokensUpTo(MaxTokens)

NoSelector == [exc |-> "", fields |-> <<>>, match |-> <<>>, op |-> "idle",
               q |-> {}]

InitSelector ==
    /\ store = SelectorTable
    /\ maps = {}
    /\ nextId = Len(SelectorTable) + 1
    /\ cascade \in Cascades
    /\ last = NoSelector

\* The constructor raised, or get_by returned or raised g.
Selected(g, match_on, fields, op) ==
    /\ last' = [exc |-> g.exc, fields |-> fields, match |-> match_on,
                op |-> op, q |-> g.q]
    /\ UNCHANGED <<store, maps, nextId, cascade>>

Construct ==
    /\ last = NoSelector
    /\ \E match_on \in SelectorSpecs, fields \in SelectorRows :
        /\ ObjectSelector_init(match_on, fields)
        /\ Selected(Raised("ValueError"), match_on, fields, "init")

GetBy ==
    /\ last = NoSelector
    /\ \E match_on \in SelectorSpecs, fields \in SelectorRows :
        /\ ~ObjectSelector_init(match_on, fields)
        /\ Selected(get_by(store, match_on, fields), match_on, fields,
                    "get_by")

DiscardSelector ==
    /\ last # NoSelector
    /\ last' = NoSelector
    /\ UNCHANGED <<store, maps, nextId, cascade>>

NextSelector ==
    \/ Construct
    \/ GetBy
    \/ DiscardSelector

SpecSelector == InitSelector /\ [][NextSelector]_vars

\* The reference evaluation, read from the last token backwards: the index
\* at which the post-fix expression ending at token pos starts, 0 when
\* there is none.
RECURSIVE StartsAt(_, _)
StartsAt(m, pos) ==
    IF pos < 1 THEN 0
    ELSE IF m[pos] \notin OPERATORS THEN pos
    ELSE IF m[pos] = "~" THEN StartsAt(m, pos - 1)
    ELSE IF StartsAt(m, pos - 1) = 0 THEN 0
    ELSE StartsAt(m, StartsAt(m, pos - 1) - 1)

Balanced(m) == StartsAt(m, Len(m)) = 1

\* Whether record rec satisfies the expression ending at token pos.
RECURSIVE Truth(_, _, _, _)
Truth(rec, fields, m, pos) ==
    IF m[pos] \notin OPERATORS THEN rec[m[pos]] = fields[m[pos]]
    ELSE IF m[pos] = "~" THEN ~Truth(rec, fields, m, pos - 1)
    ELSE IF m[pos] = "|"
         THEN \/ Truth(rec, fields, m, StartsAt(m, pos - 1) - 1)
              \/ Truth(rec, fields, m, pos - 1)
         ELSE /\ Truth(rec, fields, m, StartsAt(m, pos - 1) - 1)
              /\ Truth(rec, fields, m, pos - 1)

Agrees(i, attr) == store[i][attr] = last.fields[attr]

\* C18: a selector is constructed unless a non-operator token is not a
\* field of the row; get_by of an operator-free specification selects the
\* records that agree with the row on all listed fields; otherwise it
\* raises unless the tokens are one balanced post-fix expression, and then
\* selects the records that satisfy it, so that [a,b,&,c,|] is (a and b)
\* or c and [a,~] is not a.
C18_GetByAgrees ==
    /\ last.op = "init" =>
          /\ last.exc = "ValueError"
          /\ \E n \in 1..Len(last.match) :
                last.match[n] \notin OPERATORS \cup SelectorAttrs
    /\ last.op = "get_by" =>
          /\ \A n \in 1..Len(last.match) :
                last.match[n] \in OPERATORS \cup SelectorAttrs
          /\ IF \A n \in 1..Len(last.match) : last.match[n] \notin OPERATORS
             THEN /\ last.exc = ""
                  /\ last.q = {i \in DOMAIN store :
                                  \A n \in 1..Len(last.match) :
                                      Agrees(i, last.match[n])}
             ELSE IF Balanced(last.match)
             THEN /\ last.exc = ""
                  /\ last.q = {i \in DOMAIN store :
                                  Truth(store[i], last.fields, last.match,
                                        Len(last.match))}
             ELSE last.exc = "ValueError"
          /\ last.match = <<"name", "email", "&", "city", "|">> =>
                /\ last.exc = ""
                /\ last.q = {i \in DOMAIN store :
                                \/ Agrees(i, "name") /\ Agrees(i, "email")
                                \/ Agrees(i, "city")}
          /\ last.match = <<"name", "~">> =>
                /\ last.exc = ""
                /\ last.q = {i \in DOMAIN store : ~Agrees(i, "name")}
          /\ last.match \in {<<"name", "&">>, <<"name", "email", "|", "~",
                                               "&">>, <<"~">>} =>
                last.exc = "ValueError"
          /\ last.match = <<"name", "email", "city", "|">> =>
                last.exc = "ValueError"

C18_Witness ==
    /\ last.op = "get_by"
    /\ last.match = <<"name", "email", "&", "city", "|">>
    /\ last.fields.email = "x"
    /\ last.exc = ""
    /\ last.q = {1, 2, 3, 4, 5}


-----------------------------------------------------------------------------
(* SyncFileAction.sync: the immediate policy over the rows of a file, fed   *)
(* by the generator of from_dict, with or without TransactionSyncPolicy,    *)
(* for rows whose match specification may be malformed.                     *)
SyncFlagStrings == {<<"c">>, <<"c", "u">>, <<"u">>, <<"d", "*">>}

\* One field; a name that is not a column of the file; an operator without
\* its second operand; a balanced expression.
SyncMatchSpecs == {<<"name">>, <<"zip">>, <<"name", "&">>, <<"name", "~">>}

SyncKeys == {NoKey, StrKey(K1)}
SyncSystems == {NoSystem, "s1"}
SyncFields == {[name |-> "a"]}

SyncRows ==
    {Row(f, m, k, fs) :
        f \in SyncFlagStrings, m \in SyncMatchSpecs, k \in SyncKeys,
        fs \in SyncFields}

\* A file: one row, or a create row matched on name and then one row.
SyncFiles ==
    {<<r>> : r \in SyncRows}
    \cup {<<Row(<<"c">>, <<"name">>, k, fs), r>> :
             k \in SyncKeys, fs \in SyncFields, r \in SyncRows}

IdleSync == [atomic |-> FALSE, exc |-> "", finit |-> FALSE, op |-> "idle",
             pre |-> Db(<<>>, {}, 1), rows |-> <<>>, sys |-> NoSystem,
             trace |-> <<>>]

InitSync ==
    /\ store = <<>>
    /\ maps = {}
    /\ nextId = 1
    /\ cascade \in Cascades
    /\ last = IdleSync

\* Faulty variant: the transaction commits although the policy raised.
TransactionSyncPolicy_execute_Committed(r, pre, use_transaction) == r.db

\* Faulty variant: the transaction is rolled back although the policy
\* returned.
TransactionSyncPolicy_execute_RolledBack(r, pre, use_transaction) ==
    IF use_transaction
    THEN Db(pre.store, pre.maps, r.db.nextId)
    ELSE r.db

\* TransactionSyncPolicy.execute around the run that ended as r: an
\* exception leaves the atomic block and the records and mapping rows are
\* as before; primary keys handed out are not handed out again.
TransactionSyncPolicy_execute(r, pre, use_transaction) ==
    IF use_transaction /\ r.exc # ""
    THEN Db(pre.store, pre.maps, r.db.nextId)
    ELSE r.db

\* The run ended as r and left the stores as db.
SyncRan(r, db, sys, finit, use_transaction, rows) ==
    /\ db.nextId <= MaxRunId + 1
    /\ store' = db.store
    /\ maps' = db.maps
    /\ nextId' = db.nextId
    /\ last' = [atomic |-> use_transaction, exc |-> r.exc, finit |-> finit,
                op |-> "sync", pre |-> CurDb, rows |-> rows, sys |-> sys,
                trace |-> r.trace]
    /\ UNCHANGED cascade

SyncEnded(r, sys, finit, use_transaction, rows) ==
    SyncRan(r, TransactionSyncPolicy_execute(r, CurDb, use_transaction),
            sys, finit, use_transaction, rows)

SyncFileAction_sync ==
    /\ last = IdleSync
    /\ \E sys \in SyncSystems, finit \in BOOLEAN,
          use_transaction \in BOOLEAN, rows \in SyncFiles :
          SyncEnded(execute_actions(sys, finit, CurDb, rows, 1, <<>>),
                    sys, finit, use_transaction, rows)

DiscardSync ==
    /\ last # IdleSync
    /\ last' = IdleSync
    /\ UNCHANGED <<store, maps, nextId, cascade>>

NextSync ==
    \/ SyncFileAction_sync
    \/ DiscardSync

SpecSync == InitSync /\ [][NextSync]_vars

\* Row i of the run names a column the file does not have.
UnknownField(i) ==
    \E n \in 1..Len(last.rows[i].match) :
        /\ last.rows[i].match[n] \notin OPERATORS
        /\ last.rows[i].match[n] \notin DOMAIN last.rows[i].fields

\* Row i of the run has an unbalanced operator expression.
Unbalanced(i) ==
    /\ ~UnknownField(i)
    /\ \E n \in 1..Len(last.rows[i].match) :
          last.rows[i].match[n] \in OPERATORS
    /\ ~Balanced(last.rows[i].match)

Malformed(i) == UnknownField(i) \/ Unbalanced(i)

\* The stores after the last row that finished.
AfterFinishedRows ==
    IF last.trace = <<>> THEN Pre ELSE last.trace[Len(last.trace)].db

\* The rows before row i finished.
Reached(i) == Len(last.trace) >= i - 1

\* The first action of row i looks the record up: an update or a delete.
\* A create does not under force_init_instance, nor when the key is linked.
LooksUpFirst(i) == "c" \notin Chars(last.rows[i].flags)

-----------------------------------------------------------------------------
(* OrderedSyncPolicy.execute: one pass of BasicSyncPolicy.execute per       *)
(* action type, over filter(lambda a: a.type == filter_by, self.actions).   *)
(* self.actions is a list, either of the action groups that the factory     *)
(* builds row by row, or of the actions themselves.                         *)
ActionItem(a) == [a |-> a, group |-> <<>>, kind |-> "action"]
GroupItem(group) == [a |-> NoObj, group |-> group, kind |-> "list"]

\* The loop of execute_actions over the filter object, from item i on.
\* The lambda reads a.type: a list has no such attribute. An item that
\* passes the filter is then iterated as a row: an action is not iterable,
\* so no action.execute is reached.
RECURSIVE filtered_execute_actions(_, _, _, _)
filtered_execute_actions(db, items, filter_by, i) ==
    IF i > Len(items) THEN [db |-> db, exc |-> ""]
    ELSE IF items[i].kind = "list"
    THEN [db |-> db, exc |-> "AttributeError"]
    ELSE IF type(items[i].a) = filter_by
    THEN [db |-> db, exc |-> "TypeError"]
    ELSE filtered_execute_actions(db, items, filter_by, i + 1)

\* The passes from the n-th on.
RECURSIVE ordered_passes(_, _, _, _)

\* The n-th pass ended as r.
ordered_next(r, items, order, n) ==
    IF r.exc # "" THEN r
    ELSE ordered_passes(r.db, items, order, n + 1)

ordered_passes(db, items, order, n) ==
    IF n > Len(order) THEN [db |-> db, exc |-> ""]
    ELSE ordered_next(filtered_execute_actions(db, items, order[n], 1),
                      items, order, n)

OrderedSyncPolicy_execute(db, items) ==
    ordered_passes(db, items, <<"create", "update", "delete">>, 1)

\* The rows of a batch, and the list handed to the policy: the groups, or
\* their actions in one list.
OrderedFlagStrings == {<<"c">>, <<"u">>, <<"c", "u">>, <<"d", "*">>, <<>>}
OrderedRows ==
    {Row(f, <<"name">>, k, fs) :
        f \in OrderedFlagStrings, k \in SyncKeys, fs \in SyncFields}
Batches ==
    {<<r>> : r \in OrderedRows}
    \cup {<<r1, r2>> : r1 \in OrderedRows, r2 \in OrderedRows}

Groups(sys, rows) ==
    [i \in 1..Len(rows) |-> from_dict(sys, FALSE, rows[i]).group]

RECURSIVE Flat(_, _)
Flat(groups, i) ==
    IF i > Len(groups) THEN <<>>
    ELSE [n \in 1..Len(groups[i]) |-> ActionItem(groups[i][n])]
         \o Flat(groups, i + 1)

Items(groups, shape) ==
    IF shape = "rows" THEN [i \in 1..Len(groups) |-> GroupItem(groups[i])]
    ELSE Flat(groups, 1)

IdleOrdered == [exc |-> "", op |-> "idle", pre |-> Db(<<>>, {}, 1),
                rows |-> <<>>, shape |-> "", sys |-> NoSystem]

InitOrdered ==
    /\ store = <<>>
    /\ maps = {}
    /\ nextId = 1
    /\ cascade \in Cascades
    /\ last = IdleOrdered

\* A run of a policy ended as r.
OrderedRan(r, op, sys, rows, shape) ==
    /\ r.db.nextId <= MaxRunId + 1
    /\ store' = r.db.store
    /\ maps' = r.db.maps
    /\ nextId' = r.db.nextId
    /\ last' = [exc |-> r.exc, op |-> op, pre |-> CurDb, rows |-> rows,
                shape |-> shape, sys |-> sys]
    /\ UNCHANGED cascade

\* The immediate policy over a batch, which fills the stores.
ImmediateRun ==
    /\ last = IdleOrdered
    /\ \E sys \in SyncSystems, rows \in Batches :
          OrderedRan(execute_actions(sys, FALSE, CurDb, rows, 1, <<>>),
                     "immediate", sys, rows, "rows")

OrderedRun ==
    /\ last = IdleOrdered
    /\ \E sys \in SyncSystems, rows \in Batches, shape \in {"rows", "flat"} :
          OrderedRan(OrderedSyncPolicy_execute(
                         CurDb, Items(Groups(sys, rows), shape)),
                     "ordered", sys, rows, shape)

DiscardOrdered ==
    /\ last # IdleOrdered
    /\ last' = IdleOrdered
    /\ UNCHANGED <<store, maps, nextId, cascade>>

NextOrdered ==
    \/ ImmediateRun
    \/ OrderedRun
    \/ DiscardOrdered

SpecOrdered == InitOrdered /\ [][NextOrdered]_vars

\* The batch holds a create row and a forced delete row for key K1, in
\* either order, under an external system.
CreateAndForcedDelete ==
    /\ last.sys \in Systems
    /\ Len(last.rows) = 2
    /\ \A i \in 1..2 : last.rows[i].key = StrKey(K1)
    /\ {last.rows[1].flags, last.rows[2].flags} = {<<"c">>, <<"d", "*">>}

\* C20: the ordered policy executes the actions of the batch, creates
\* first and deletes last, so that after a batch with a create and a forced
\* delete for key K1 the run has ended without an error, no record of the
\* rows' name is left and K1 is not linked, whichever row comes first.
C20_OrderedCreateThenDelete ==
    (last.op = "ordered" /\ CreateAndForcedDelete) =>
        /\ last.exc = ""
        /\ Matching(CurDb, <<"name">>, last.rows[1].fields) = {}
        /\ LookupMapping(maps, last.sys, K1) = {}


\* C25: a run inside TransactionSyncPolicy that an exception leaves keeps no
\* change of any row (records and mapping rows are as before the run) and
\* the exception reaches the caller; a run that returns has the changes of
\* all its rows committed.
C25_AtomicRun ==
    (last.op = "sync" /\ last.atomic) =>
        /\ last.exc # "" =>
              /\ store = last.pre.store
              /\ maps = last.pre.maps
        /\ last.exc = "" =>
              /\ Len(last.trace) = Len(last.rows)
              /\ store = last.trace[Len(last.trace)].db.store
              /\ maps = last.trace[Len(last.trace)].db.maps

\* An atomic run whose first row created a record and its mapping and
\* whose second row raised.
C25_Witness ==
    /\ last.op = "sync" /\ last.atomic
    /\ last.exc # ""
    /\ Len(last.trace) = 1
    /\ last.trace[1].db.store # last.pre.store
    /\ last.trace[1].db.maps # last.pre.maps
    /\ store = last.pre.store

-----------------------------------------------------------------------------
(* action.execute(use_bulk=True): nothing is saved or deleted by the       *)
(* action itself; it returns the instance for the policy's buffers.        *)

\* A model instance: its primary key (NoObj while unsaved) and its fields.
Inst(id, obj) == [id |-> id, obj |-> obj]

\* What execute(use_bulk=True) left: the stores, whether an instance was
\* returned and which, obj_already_created, external_mapping_obj (the rows
\* it was loaded from, {} for a fresh one) and the exception.
Bulk(db, some, inst, already, ref, exc) ==
    [db |-> db, some |-> some, inst |-> inst, already |-> already,
     ref |-> ref, exc |-> exc]

BulkNone(db) == Bulk(db, FALSE, Inst(NoObj, NewObj), FALSE, {}, "")
BulkRaise(db, exc) == Bulk(db, FALSE, Inst(NoObj, NewObj), FALSE, {}, exc)
BulkInst(db, id, obj) == Bulk(db, TRUE, Inst(id, obj), FALSE, {}, "")

\* CreateModelAction.execute(use_bulk=True)
CreateModelAction_bulk(db, match, fields, finit) ==
    LET g == get_object(db, match, fields) IN
    IF match # <<>> /\ ~finit /\ Raises(g.st) # ""
    THEN BulkRaise(db, Raises(g.st))
    ELSE IF match # <<>> /\ ~finit /\ g.st = "one"
    THEN [BulkInst(db, g.id, db.store[g.id]) EXCEPT !.already = TRUE]
    ELSE IF match # <<>> /\ ~finit /\ g.st = "many" THEN BulkNone(db)
    ELSE BulkInst(db, NoObj, update_from_fields(NewObj, fields, TRUE))

\* CreateModelWithReferenceAction.execute(use_bulk=True): the linked
\* record is returned with obj_already_created left False.
CreateModelWithReferenceAction_bulk(db, sys, key, match, fields, finit) ==
    LET loaded == get_or_init_ext_mapp(db, sys, key, finit)
        linked == content_object(db, MappingOid(loaded))
    IN  IF Cardinality(loaded) > 1
        THEN BulkRaise(db, "MultipleObjectsReturned")
        ELSE IF linked = NoObj
        THEN [CreateModelAction_bulk(db, match, fields, finit)
                 EXCEPT !.ref = loaded]
        ELSE [BulkInst(db, linked, db.store[linked]) EXCEPT !.ref = loaded]

\* UpdateModelAction.execute(use_bulk=True)
UpdateModelAction_bulk(db, match, fields, force) ==
    LET g == get_object(db, match, fields) IN
    IF Raises(g.st) # "" THEN BulkRaise(db, Raises(g.st))
    ELSE IF g.st # "one" THEN BulkNone(db)
    ELSE BulkInst(db, g.id, update_from_fields(db.store[g.id], fields, force))

\* UpdateModelWithReferenceAction.execute(use_bulk=True): a matched record
\* that differs from the linked one is deleted at once.
UpdateModelWithReferenceAction_bulk(db, sys, key, match, fields, force) ==
    LET loaded == get_or_init_ext_mapp(db, sys, key, FALSE)
        linked == content_object(db, MappingOid(loaded))
        g == get_object(db, match, fields)
    IN
    IF Cardinality(loaded) > 1 THEN BulkRaise(db, "MultipleObjectsReturned")
    ELSE IF Raises(g.st) # "" THEN BulkRaise(db, Raises(g.st))
    ELSE IF g.st = "many" THEN [BulkNone(db) EXCEPT !.ref = loaded]
    ELSE
    LET matched == g.id
        db1 == IF matched # NoObj /\ linked # NoObj /\ matched # linked
               THEN DeleteRecord(db, matched)
               ELSE db
        model_obj == IF linked # NoObj THEN linked ELSE matched
    IN
    IF model_obj = NoObj THEN [BulkNone(db1) EXCEPT !.ref = loaded]
    ELSE [BulkInst(db1, model_obj,
                   update_from_fields(db.store[model_obj], fields, force))
             EXCEPT !.ref = loaded]

\* DeleteModelAction.execute(obj, use_bulk=True)
DeleteModelAction_bulk(db, given, match, fields) ==
    IF given # NoObj THEN BulkInst(db, given, db.store[given])
    ELSE LET g == get_object(db, match, fields) IN
         IF Raises(g.st) # "" THEN BulkRaise(db, Raises(g.st))
         ELSE IF g.st = "one" THEN BulkInst(db, g.id, db.store[g.id])
         ELSE BulkNone(db)

\* DeleteIfOnlyReferenceModelAction.execute(use_bulk=True)
DeleteIfOnlyReferenceModelAction_bulk(db, sys, key, match, fields) ==
    IF match # <<>>
    THEN LET g == get_object(db, match, fields) IN
         IF Raises(g.st) # "" THEN BulkRaise(db, Raises(g.st))
         ELSE IF g.st # "one" THEN BulkNone(db)
         ELSE LET km == {m \in db.maps : m.oid = g.id /\ m.key = key} IN
              IF Cardinality(km) # 1 THEN BulkNone(db)
              ELSE IF (CHOOSE m \in km : TRUE).sys = sys
                   THEN DeleteModelAction_bulk(db, g.id, match, fields)
                   ELSE BulkNone(db)
    ELSE LET km == LookupMapping(db.maps, sys, key) IN
         IF Cardinality(km) # 1 THEN BulkNone(db)
         ELSE LET obj == content_object(db, MappingOid(km)) IN
              IF obj # NoObj
              THEN DeleteModelAction_bulk(db, obj, match, fields)
              ELSE BulkNone(db)

\* action.execute(use_bulk=True)
execute_bulk(db, a) ==
    CASE a.cls = "ModelAction" -> BulkNone(db)
      [] a.cls = "Create" ->
            CreateModelAction_bulk(db, a.match, a.fields, a.flag)
      [] a.cls = "CreateWithReference" ->
            CreateModelWithReferenceAction_bulk(
                db, a.sys, a.key, a.match, a.fields, a.flag)
      [] a.cls = "Update" ->
            UpdateModelAction_bulk(db, a.match, a.fields, a.flag)
      [] a.cls = "UpdateWithReference" ->
            UpdateModelWithReferenceAction_bulk(
                db, a.sys, a.key, a.match, a.fields, a.flag)
      [] a.cls = "Delete" ->
            DeleteModelAction_bulk(db, NoObj, a.match, a.fields)
      [] a.cls = "DeleteIfOnlyReference" ->
            DeleteIfOnlyReferenceModelAction_bulk(
                db, a.sys, a.key, a.match, a.fields)
      [] OTHER ->
            BulkNone(DeleteExternalReferenceAction_execute(
                         db, a.sys, a.key).db)

\* isinstance(action, ReferenceActionMixin)
IsReferenceAction(a) == a.cls \in {"CreateWithReference", "UpdateWithReference"}

-----------------------------------------------------------------------------
(* BulkSyncPolicy: the policy object during a run. db are the stores,      *)
(* create/cref, update/uref and delete the five buffers, conn whether the   *)
(* post_save / post_delete receivers of the model are connected, fired the  *)
(* records a receiver was called for, flushes the multi-row calls made      *)
(* (kind, number of instances, what was pending in the create and update    *)
(* buffers when it was made, and whether it is the call at end of run),     *)
(* peak the largest length the create buffer had, attempted and executed    *)
(* the counters num_of_model_actions and num_of_executed_actions, counts    *)
(* per multi-row call on a non-empty buffer what it added to the executed   *)
(* counter and how many records it wrote or deleted, cls the class of the   *)
(* policy object.                                                           *)
Policy(db, batch_size, conn) ==
    [db |-> db, batch_size |-> batch_size, create |-> <<>>, cref |-> <<>>,
     update |-> <<>>, uref |-> <<>>, delete |-> <<>>, conn |-> conn,
     fired |-> {}, flushes |-> <<>>, peak |-> 0, exc |-> "",
     attempted |-> 0, executed |-> 0, counts |-> <<>>,
     cls |-> "BulkSyncPolicy"]

Flush(kind, bk, final) ==
    [kind |-> kind,
     size |-> Len(CASE kind = "create" -> bk.create
                    [] kind = "update" -> bk.update
                    [] OTHER -> bk.delete),
     pc |-> Len(bk.create), pu |-> Len(bk.update), final |-> final]

\* counts after a multi-row call of kind on the buffer instances.
Counted(counts, kind, instances, executed, persisted) ==
    IF instances = <<>> THEN counts
    ELSE Append(counts, [kind |-> kind, executed |-> executed,
                         persisted |-> persisted])

\* external_mapping_obj of a reference-aware action
Ref(sys, key, loaded) == [sys |-> sys, key |-> key, loaded |-> loaded]

\* Model.objects.bulk_create raises: an instance carries a primary key
\* whose row exists, or two instances carry the same primary key.
bulk_create_conflict(db, instances) ==
    \/ \E i \in DOMAIN instances :
          instances[i].id # NoObj /\ instances[i].id \in DOMAIN db.store
    \/ \E i, j \in DOMAIN instances :
          i < j /\ instances[i].id # NoObj
                /\ instances[i].id = instances[j].id

\* The INSERTs of one multi-row create from the i-th instance on; objs
\* collects the instances with the primary keys the database set.
RECURSIVE bulk_insert(_, _, _, _)
bulk_insert(db, instances, i, objs) ==
    IF i > Len(instances) THEN [db |-> db, objs |-> objs]
    ELSE IF instances[i].id = NoObj
    THEN bulk_insert(InsertRecord(db, instances[i].obj), instances, i + 1,
                     Append(objs, Inst(db.nextId, instances[i].obj)))
    ELSE bulk_insert(Db(db.store @@ (instances[i].id :> instances[i].obj),
                        db.maps, db.nextId),
                     instances, i + 1, Append(objs, instances[i]))

\* bulk_create(self.model, instances): the stores and the returned objs;
\* an exception of the database is logged and nothing is created.
bulk_create(db, instances) ==
    IF bulk_create_conflict(db, instances)
    THEN [db |-> db, objs |-> <<>>]
    ELSE bulk_insert(db, instances, 1, <<>>)

\* bulk_create(ExternalKeyMapping, refs) after map_to_external_objects:
\* one INSERT of all mapping rows, which fails as a whole on a row that
\* breaks unique_together.
bulk_create_mappings(db, objs, refs) ==
    IF \/ \E i \in DOMAIN refs : UniqueViolation(db.maps, refs[i].sys, refs[i].key)
       \/ \E i, j \in DOMAIN refs :
             i < j /\ refs[i].sys = refs[j].sys /\ refs[i].key = refs[j].key
    THEN db
    ELSE Db(db.store,
            db.maps \cup {Mapping(refs[i].sys, refs[i].key, objs[i].id) :
                             i \in DOMAIN refs},
            db.nextId)

\* The model's part of bulk_create_with_ref ended as c. MPTTBulkSyncPolicy
\* overrides bulk_create_with_ref and bulk_update_with_ref without the
\* mapping part.
bulk_created(bk, c, final) ==
    LET bk1 == [bk EXCEPT !.db = c.db, !.create = <<>>,
                          !.executed = @ + Len(c.objs),
                          !.counts = Counted(@, "create", bk.create,
                                             Len(c.objs), Len(c.objs)),
                          !.flushes = IF Len(bk.create) > 0
                                      THEN Append(@, Flush("create", bk, final))
                                      ELSE @]
    IN  IF bk.cls = "MPTTBulkSyncPolicy" \/ bk.cref = <<>> THEN bk1
        ELSE IF Len(c.objs) # Len(bk.cref)
        THEN [bk1 EXCEPT !.exc = "AssertionError"]
        ELSE [bk1 EXCEPT !.db = bulk_create_mappings(c.db, c.objs, bk.cref),
                         !.cref = <<>>]

\* bulk_create_with_ref
bulk_create_with_ref(bk, final) ==
    bulk_created(bk, bulk_create(bk.db, bk.create), final)

\* The UPDATEs of Model.objects.bulk_update from the i-th instance on: of
\* two instances with one primary key the first is written.
RECURSIVE bulk_update(_, _, _)
bulk_update(db, instances, i) ==
    IF i > Len(instances) THEN db
    ELSE IF /\ instances[i].id \in DOMAIN db.store
            /\ \A j \in 1..(i - 1) : instances[j].id # instances[i].id
    THEN bulk_update(SaveRecord(db, instances[i].id, instances[i].obj),
                     instances, i + 1)
    ELSE bulk_update(db, instances, i + 1)

\* The rows one bulk_update of instances writes.
bulk_updated_rows(db, instances) ==
    {instances[i].id : i \in DOMAIN instances} \cap DOMAIN db.store

\* What bulk_update returns: the list instances itself, after the finally
\* block cleared it.
updated_instances(instances) == <<>>

\* bulk_update_with_ref: bulk_update returns the very list it clears, so
\* map_to_external_objects is handed no instance.
bulk_update_with_ref(bk, final) ==
    LET bk1 == [bk EXCEPT !.db = bulk_update(bk.db, bk.update, 1),
                          !.update = <<>>,
                          !.executed = @ + Len(updated_instances(bk.update)),
                          !.counts =
                              Counted(@, "update", bk.update,
                                      Len(updated_instances(bk.update)),
                                      Cardinality(bulk_updated_rows(bk.db, bk.update))),
                          !.flushes = IF Len(bk.update) > 0
                                      THEN Append(@, Flush("update", bk, final))
                                      ELSE @]
    IN  IF bk.cls = "MPTTBulkSyncPolicy" \/ bk.uref = <<>> THEN bk1
        ELSE [bk1 EXCEPT !.exc = "AssertionError"]

\* The DELETEs of filter(pk__in=delete_ids).delete()
RECURSIVE delete_all(_, _)
delete_all(db, ids) ==
    IF ids = {} THEN db
    ELSE LET id == CHOOSE x \in ids : \A y \in ids : x <= y
         IN  delete_all(DeleteRecord(db, id), ids \ {id})

\* Faulty variant: the queryset delete sends no post_delete.
bulk_delete_Silent(bk, final) ==
    LET ids == {bk.delete[i].id : i \in DOMAIN bk.delete} \cap DOMAIN bk.db.store
    IN  [bk EXCEPT !.db = delete_all(bk.db, ids), !.delete = <<>>,
                   !.executed = @ + Len(bk.delete),
                   !.counts = Counted(@, "delete", bk.delete,
                                      Len(bk.delete), Cardinality(ids)),
                   !.flushes = IF Len(bk.delete) > 0
                               THEN Append(@, Flush("delete", bk, final))
                               ELSE @]

\* bulk_delete: the queryset delete emits post_delete for every row it
\* deletes, to the receivers connected at that moment.
bulk_delete(bk, final) ==
    LET ids == {bk.delete[i].id : i \in DOMAIN bk.delete} \cap DOMAIN bk.db.store
    IN  [bk EXCEPT !.db = delete_all(bk.db, ids), !.delete = <<>>,
                   !.executed = @ + Len(bk.delete),
                   !.counts = Counted(@, "delete", bk.delete,
                                      Len(bk.delete), Cardinality(ids)),
                   !.fired = IF bk.conn THEN @ \cup ids ELSE @,
                   !.flushes = IF Len(bk.delete) > 0
                               THEN Append(@, Flush("delete", bk, final))
                               ELSE @]

\* has_batch_size
has_batch_size(bk, instances) == Len(instances) = bk.batch_size

\* append_for_bulk into the create buffers, then the flush when full.
append_create(bk, a, r) ==
    LET bk1 == [bk EXCEPT !.create = Append(@, r.inst),
                          !.cref = IF IsReferenceAction(a)
                                   THEN Append(@, Ref(a.sys, a.key, r.ref))
                                   ELSE @,
                          !.peak = IF Len(bk.create) + 1 > @
                                   THEN Len(bk.create) + 1 ELSE @]
    IN  IF has_batch_size(bk1, bk1.create)
        THEN bulk_create_with_ref(bk1, FALSE) ELSE bk1

\* append_for_bulk into the update buffers, then the flush when full.
append_update(bk, a, r) ==
    LET bk1 == [bk EXCEPT !.update = Append(@, r.inst),
                          !.uref = IF IsReferenceAction(a)
                                   THEN Append(@, Ref(a.sys, a.key, r.ref))
                                   ELSE @]
    IN  IF has_batch_size(bk1, bk1.update)
        THEN bulk_update_with_ref(bk1, FALSE) ELSE bk1

\* delete_instances.append, then the flush when full.
append_delete(bk, r) ==
    LET bk1 == [bk EXCEPT !.delete = Append(@, r.inst)]
    IN  IF has_batch_size(bk1, bk1.delete)
        THEN bulk_delete(bk1, FALSE) ELSE bk1

\* execute_row_action after action.execute(use_bulk=True) ended as r.
row_action_executed(bk, a, r) ==
    IF r.exc # "" THEN [bk EXCEPT !.db = r.db, !.exc = r.exc]
    ELSE IF ~r.some THEN [bk EXCEPT !.db = r.db]
    ELSE IF type(a) = "create" /\ ~r.already
    THEN append_create([bk EXCEPT !.db = r.db], a, r)
    ELSE IF type(a) = "update"
    THEN append_update([bk EXCEPT !.db = r.db], a, r)
    ELSE IF type(a) = "delete"
    THEN append_delete([bk EXCEPT !.db = r.db], r)
    ELSE [bk EXCEPT !.db = r.db]

\* BulkSyncPolicy.execute_row_action
execute_row_action(bk, a) ==
    row_action_executed(bk, a, execute_bulk(bk.db, a))

\* The actions of one row from the i-th on.
RECURSIVE bulk_execute_group(_, _, _)
bulk_execute_group(bk, group, i) ==
    IF i > Len(group) \/ bk.exc # "" THEN bk
    ELSE bulk_execute_group(execute_row_action(bk, group[i]), group, i + 1)

\* BulkSyncPolicy.execute_actions: the rows from the i-th on; the actions
\* come out of the factory row by row.
RECURSIVE bulk_execute_actions(_, _, _, _, _)

\* The actions of a row were executed and left bk: without an exception
\* the row's distinct types are added to num_of_model_actions.
bulk_row_counted(bk, group) ==
    IF bk.exc # "" THEN bk
    ELSE [bk EXCEPT !.attempted = @ + Cardinality(row_action_types(group))]

bulk_row_built(fd, external_system, finit, bk, rows, i) ==
    IF fd.exc # "" THEN [bk EXCEPT !.exc = fd.exc]
    ELSE bulk_execute_actions(
            external_system, finit,
            bulk_row_counted(bulk_execute_group(bk, fd.group, 1), fd.group),
            rows, i + 1)

bulk_execute_actions(external_system, finit, bk, rows, i) ==
    IF i > Len(rows) \/ bk.exc # "" THEN bk
    ELSE bulk_row_built(from_dict(external_system, finit, rows[i]),
                        external_system, finit, bk, rows, i)

\* Faulty variant: the remaining buffers are flushed delete first.
flush_pending_Reversed(bk) ==
    LET d == bulk_delete(bk, TRUE)
        u == bulk_update_with_ref(d, TRUE)
    IN  IF u.exc # "" THEN u ELSE bulk_create_with_ref(u, TRUE)

\* "bulk persist any instances which are still pending"
flush_pending(bk) ==
    LET c == bulk_create_with_ref(bk, TRUE) IN
    IF c.exc # "" THEN c
    ELSE LET u == bulk_update_with_ref(c, TRUE) IN
         IF u.exc # "" THEN u ELSE bulk_delete(u, TRUE)

\* temp_disconnect_signal.__enter__: disconnects when a receiver or a
\* dispatch_uid is configured.
temp_disconnect_signal_enter(conf, conn) == IF conf THEN FALSE ELSE conn

\* Faulty variant: the receiver is left disconnected.
temp_disconnect_signal_exit_Forgotten(conf, conn) == conn

\* temp_disconnect_signal.__exit__: connects when a receiver or a
\* dispatch_uid is configured, on every way out of the block.
temp_disconnect_signal_exit(conf, conn) == IF conf THEN TRUE ELSE conn

\* The with block of BulkSyncPolicy.execute was left as bk.
bulk_block_left(bk, conf) ==
    IF bk.exc # ""
    THEN [bk EXCEPT !.conn = temp_disconnect_signal_exit(conf, bk.conn)]
    ELSE flush_pending(
             [bk EXCEPT !.conn = temp_disconnect_signal_exit(conf, bk.conn)])

\* BulkSyncPolicy.execute
BulkSyncPolicy_execute(external_system, finit, db, rows, batch_size, conf, conn) ==
    bulk_block_left(
        bulk_execute_actions(
            external_system, finit,
            Policy(db, batch_size, temp_disconnect_signal_enter(conf, conn)),
            rows, 1),
        conf)

\* BulkSyncPolicy.execute called by a MPTTBulkSyncPolicy object: the
\* actions carry force_init_instace False.
BulkSyncPolicy_execute_super(external_system, db, rows, batch_size, conf, conn) ==
    bulk_block_left(
        bulk_execute_actions(
            external_system, FALSE,
            [Policy(db, batch_size, temp_disconnect_signal_enter(conf, conn))
                EXCEPT !.cls = "MPTTBulkSyncPolicy"],
            rows, 1),
        conf)

-----------------------------------------------------------------------------
(* Bulk runs: a file is synchronised by a BulkSyncPolicy with a batch size, *)
(* with or without receivers configured in SYNC_SIGNAL_DISCONNECT; the      *)
(* receivers of the model are connected when the run starts.                *)

\* A create row with or without an external key, an update row matched on
\* name with or without an external key, a forced delete row matched on name.
BulkCreateRows ==
    {Row(<<"c">>, <<>>, k, [name |-> "a"]) :
        k \in {NoKey, StrKey(K1), StrKey(K2)}}

BulkRows ==
    BulkCreateRows
    \cup {Row(<<"u">>, <<"name">>, k, [name |-> "a"]) :
             k \in {NoKey, StrKey(K1)}}
    \cup {Row(<<"d", "*">>, <<"name">>, NoKey, [name |-> "a"])}

\* Files of up to three rows of any kind, and longer files of create rows
\* without a key or with the first key.
BulkFiles ==
    UNION {[1..n -> BulkRows] : n \in 1..3}
    \cup UNION {[1..n -> {Row(<<"c">>, <<>>, k, [name |-> "a"]) :
                            k \in {NoKey, StrKey(K1)}}] :
                n \in 4..MaxBulkRows}

BulkSystems == {NoSystem, "s1"}

NoBulk(op) == [op |-> op]

InitBulk ==
    /\ store = <<>>
    /\ maps = {}
    /\ nextId = 1
    /\ cascade \in Cascades
    /\ last = NoBulk("idle")

\* The run ended as bk.
BulkRan(bk, sys, rows, batch_size, conf) ==
    /\ store' = bk.db.store
    /\ maps' = bk.db.maps
    /\ nextId' = bk.db.nextId
    /\ last' = [op |-> "bulk", sys |-> sys, rows |-> rows,
                batch_size |-> batch_size, conf |-> conf, pre |-> CurDb,
                create |-> bk.create, cref |-> bk.cref, update |-> bk.update,
                uref |-> bk.uref, delete |-> bk.delete, conn |-> bk.conn,
                fired |-> bk.fired, flushes |-> bk.flushes, peak |-> bk.peak,
                exc |-> bk.exc, attempted |-> bk.attempted,
                executed |-> bk.executed, counts |-> bk.counts]
    /\ UNCHANGED cascade

BulkRun ==
    /\ last.op = "idle"
    /\ nextId <= MaxRunId
    /\ \E sys \in BulkSystems, batch_size \in 1..MaxBatch, conf \in BOOLEAN,
          rows \in BulkFiles :
          BulkRan(BulkSyncPolicy_execute(sys, FALSE, CurDb, rows, batch_size,
                                         conf, TRUE),
                  sys, rows, batch_size, conf)

DiscardBulk ==
    /\ last.op # "idle"
    /\ last' = NoBulk("idle")
    /\ UNCHANGED <<store, maps, nextId, cascade>>

NextBulk ==
    \/ BulkRun
    \/ DiscardBulk

SpecBulk == InitBulk /\ [][NextBulk]_vars

\* The run was a bulk run of create rows only, and every row is a new
\* record: no row carries an external key that is mapped already or that
\* an earlier row of the file carries.
BulkCreateRun ==
    /\ last.op = "bulk"
    /\ \A i \in DOMAIN last.rows : last.rows[i] \in BulkCreateRows
    /\ last.sys # NoSystem =>
          \A i \in DOMAIN last.rows :
             last.rows[i].key # NoKey =>
                /\ LookupMapping(last.pre.maps, last.sys,
                                 last.rows[i].key.val) = {}
                /\ \A j \in 1..(i - 1) : last.rows[j].key # last.rows[i].key

\* b, ..., b and then the remainder when there is one.
ExpectedFlushes(n, b) ==
    [i \in 1..((n + b - 1) \div b) |-> IF i * b <= n THEN b ELSE n % b]

FlushSizes(kind) ==
    LET idx == {i \in DOMAIN last.flushes : last.flushes[i].kind = kind}
    IN  {<<i, last.flushes[i].size>> : i \in idx}

\* C21: a bulk run of n create rows of new records never holds more than
\* batch_size records in the create buffer, makes its multi-row create calls
\* with sizes b, ..., b, n mod b, ends with every buffer empty and leaves
\* all n records in the store.
C21_BulkCreateFlushes ==
    BulkCreateRun =>
        /\ last.peak <= last.batch_size
        /\ [i \in DOMAIN last.flushes |-> last.flushes[i].size]
              = ExpectedFlushes(Len(last.rows), last.batch_size)
        /\ \A i \in DOMAIN last.flushes : last.flushes[i].kind = "create"
        /\ last.create = <<>> /\ last.cref = <<>> /\ last.update = <<>>
        /\ last.uref = <<>> /\ last.delete = <<>>
        /\ Cardinality(DOMAIN store)
              = Cardinality(DOMAIN last.pre.store) + Len(last.rows)

\* The rows of the run are all externally mappable or none of them is.
UniformlyMappable ==
    \/ last.sys = NoSystem
    \/ \A i \in DOMAIN last.rows : last.rows[i].key = NoKey
    \/ \A i \in DOMAIN last.rows : last.rows[i].key # NoKey

\* The flush sizes of create-only runs whose rows are all mappable or all
\* not mappable.
BulkCreateFlushesUniform ==
    (BulkCreateRun /\ UniformlyMappable) => C21_BulkCreateFlushes

\* A flush of the run made while records were pending in a buffer that
\* comes before its own in the order create, update, delete.
OutOfOrder(f) ==
    \/ f.kind = "update" /\ f.pc > 0
    \/ f.kind = "delete" /\ (f.pc > 0 \/ f.pu > 0)

C23_BulkFiresNoHook ==
    (last.op = "bulk" /\ last.conf) => last.fired = {}

-----------------------------------------------------------------------------
(* Receivers: BasicSyncPolicy.execute with settings.SYNC_SIGNAL_DISCONNECT. *)
(* hooks tells for post_save and post_delete whether the receiver of the    *)
(* model is connected; the setting names the signals it gives a receiver    *)
(* for.                                                                     *)
Signals == {"post_save", "post_delete"}
SignalSettings == SUBSET Signals

\* get_signal_info: a receiver is configured for the signal.
get_signal_info(setting, signal) == signal \in setting

\* Both with-items entered: each configured receiver is disconnected. With
\* an empty setting the actions run outside any with block.
signals_entered(setting, hooks) ==
    [s \in Signals |->
        IF setting # {}
        THEN temp_disconnect_signal_enter(get_signal_info(setting, s), hooks[s])
        ELSE hooks[s]]

\* Both with-items left, by a return or by an exception.
signals_left(setting, hooks) ==
    [s \in Signals |->
        IF setting # {}
        THEN temp_disconnect_signal_exit(get_signal_info(setting, s), hooks[s])
        ELSE hooks[s]]

NoSignals(op, hooks) == [op |-> op, hooks |-> hooks]

InitSignals ==
    /\ store = <<>>
    /\ maps = {}
    /\ nextId = 1
    /\ cascade \in Cascades
    /\ \E hooks \in [Signals -> BOOLEAN] : last = NoSignals("idle", hooks)

\* The actions ran with the receivers as during and ended as r.
SignalsRan(r, sys, setting, rows, during) ==
    /\ r.db.nextId <= MaxRunId + 1
    /\ store' = r.db.store
    /\ maps' = r.db.maps
    /\ nextId' = r.db.nextId
    /\ last' = [op |-> "policy", sys |-> sys, setting |-> setting,
                rows |-> rows, before |-> last.hooks, during |-> during,
                hooks |-> signals_left(setting, during), exc |-> r.exc,
                pre |-> CurDb]
    /\ UNCHANGED cascade

BasicSyncPolicy_execute_signals ==
    /\ last.op = "idle"
    /\ \E sys \in SyncSystems, setting \in SignalSettings, rows \in SyncFiles :
          SignalsRan(execute_actions(sys, FALSE, CurDb, rows, 1, <<>>),
                     sys, setting, rows, signals_entered(setting, last.hooks))

DiscardSignals ==
    /\ last.op # "idle"
    /\ last' = NoSignals("idle", last.hooks)
    /\ UNCHANGED <<store, maps, nextId, cascade>>

NextSignals ==
    \/ BasicSyncPolicy_execute_signals
    \/ DiscardSignals

SpecSignals == InitSignals /\ [][NextSignals]_vars

-----------------------------------------------------------------------------
\* C26: a run of the immediate policy is not ended by bad data in a row:
\* unless a row lacks the match specification its action needs, the run
\* raises nothing and every row of the file is executed.
C26_BadDataNeverAborts ==
    (last.op = "policy" /\ last.exc # "AttributeError") =>
        /\ last.exc = ""
        /\ Len(last.trace) = Len(last.rows)

\* C27: no persisting action lets an integrity violation out: Create,
\* Update, reference-aware Create and reference-aware Update, the save of
\* the mapping row included, never raise IntegrityError, and a write that
\* failed leaves the record store as it was.
C27_IntegrityRecovered ==
    last.op \in {"Create", "CreateWithReference", "Update",
                 "UpdateWithReference"} =>
        /\ last.exc # "IntegrityError"
        /\ (last.ret = NoObj /\ ~last.already) => store = last.pre.store

-----------------------------------------------------------------------------
(* update_from_fields with relations. The synchronised model has a plain   *)
(* attribute name, a nullable foreign key owner and a many-to-many field    *)
(* tags; the related model of both has the rows RelTargets, and             *)
(* ExternalKeyMapping holds the rows RelMaps for its content type.          *)
RelTargets ==
    "t1" :> [name |-> "x", code |-> "1"] @@ "t2" :> [name |-> "y", code |-> "1"]
RelMaps == {Mapping("s1", "k1", "t1")}

NewRel == [name |-> "", owner |-> NONE, tags |-> {}]

\* A referential attribute tags=><ch><col> with its value.
Directive(ch, col, val) == [ch |-> ch, col |-> col, val |-> val]

\* ModelAction.get_object_id_by_external_key: the object_id of the mapping
\* rows found.
get_object_id_by_external_key(sys, external_key) ==
    {m.oid : m \in LookupMapping(RelMaps, sys, external_key)}

\* is_rel_model_mapped (no table is excluded)
is_rel_model_mapped(rel_by_external_key) == rel_by_external_key

\* The first loop of update_from_fields: name, then owner. owner is a
\* related field: with rel_by_external_key a value that is not empty is an
\* external key and is replaced by the mapped object_id; without a mapping
\* row ExternalKeyMapping.DoesNotExist is raised.
plain_attributes(obj, fields, force, rel_by_external_key, sys) ==
    LET named == IF force \/ IsEmpty(obj.name)
                 THEN [obj EXCEPT !.name = fields.name] ELSE obj
        value == IF fields.owner = "" THEN NONE ELSE fields.owner
        ids == get_object_id_by_external_key(sys, value)
    IN  IF ~(force \/ IsEmpty(obj.owner)) THEN [obj |-> named, exc |-> ""]
        ELSE IF value # NONE /\ is_rel_model_mapped(rel_by_external_key)
        THEN IF ids = {}
             THEN [obj |-> named, exc |-> "DoesNotExist"]
             ELSE [obj |-> [named EXCEPT !.owner = CHOOSE i \in ids : TRUE],
                   exc |-> ""]
        ELSE [obj |-> [named EXCEPT !.owner = value], exc |-> ""]

\* related_model.objects.get(**get_by_exact)
m2m_targets(refs) ==
    {t \in DOMAIN RelTargets :
        \A i \in DOMAIN refs : RelTargets[t][refs[i].col] = refs[i].val}

\* Faulty variant: '-' empties the related set.
m2m_apply_Cleared(tags, action_type, target) ==
    CASE action_type = "+" -> tags \cup {target}
      [] action_type = "-" -> {}
      [] OTHER -> {target}

\* add, remove, or clear and add.
m2m_apply(tags, action_type, target) ==
    CASE action_type = "+" -> tags \cup {target}
      [] action_type = "-" -> tags \ {target}
      [] OTHER -> {target}

\* The referential attributes of the field tags, on the object with
\* primary key pk (NoObj before the first save). Without force the current
\* value, a related manager, is never None and the field is skipped. The
\* errors DissimilarActionTypesError, UnknownActionType, ObjectDoesNotExist
\* and MultipleObjectsReturned are logged; the related manager of an
\* instance without primary key raises ValueError.
many_to_many(obj, pk, refs, force) ==
    LET action_type == refs[1].ch
        targets == m2m_targets(refs)
    IN  IF refs = <<>> \/ ~force THEN [obj |-> obj, exc |-> ""]
        ELSE IF \E i \in DOMAIN refs : refs[i].ch # action_type
        THEN [obj |-> obj, exc |-> ""]
        ELSE IF action_type \notin {"+", "-", "="}
        THEN [obj |-> obj, exc |-> ""]
        ELSE IF Cardinality(targets) # 1 THEN [obj |-> obj, exc |-> ""]
        ELSE IF pk = NoObj THEN [obj |-> obj, exc |-> "ValueError"]
        ELSE [obj |-> [obj EXCEPT !.tags = m2m_apply(@, action_type,
                                               CHOOSE t \in targets : TRUE)],
              exc |-> ""]

\* The plain attributes were applied as p.
plain_applied(p, pk, refs, force) ==
    IF p.exc # "" THEN p ELSE many_to_many(p.obj, pk, refs, force)

\* ModelAction.update_from_fields: the object afterwards and the exception
\* that left it.
update_from_fields_rel(obj, pk, fields, refs, force, rel_by_external_key, sys) ==
    plain_applied(plain_attributes(obj, fields, force, rel_by_external_key, sys),
                  pk, refs, force)

\* update_from_fields of a create ended as u.
rel_created(db, u) ==
    IF u.exc = "DoesNotExist" THEN Res(db, NoObj, "")
    ELSE IF u.exc # "" THEN Res(db, NoObj, u.exc)
    ELSE Res(InsertRecord(db, u.obj), db.nextId, "")

\* CreateModelAction.execute without match_on.
CreateModelAction_execute_rel(db, fields, refs, rel_by_external_key, sys) ==
    rel_created(db, update_from_fields_rel(NewRel, NoObj, fields, refs, TRUE,
                                           rel_by_external_key, sys))

\* Faulty variant: the object is saved although the relation was not
\* resolved.
rel_updated_Saved(db, id, u) ==
    IF u.exc \notin {"", "DoesNotExist"} THEN Res(db, NoObj, u.exc)
    ELSE Res(SaveRecord(db, id, u.obj), id, "")

\* update_from_fields of an update of record id ended as u.
rel_updated(db, id, u) ==
    IF u.exc = "DoesNotExist" THEN Res(db, NoObj, "")
    ELSE IF u.exc # "" THEN Res(db, NoObj, u.exc)
    ELSE Res(SaveRecord(db, id, u.obj), id, "")

\* UpdateModelAction.execute
UpdateModelAction_execute_rel(db, match, fields, refs, force, rel_by_external_key, sys) ==
    LET g == get_object(db, match, fields) IN
    IF Raises(g.st) # "" THEN Res(db, NoObj, Raises(g.st))
    ELSE IF g.st # "one" THEN Res(db, NoObj, "")
    ELSE rel_updated(db, g.id,
             update_from_fields_rel(db.store[g.id], g.id, fields, refs, force,
                                    rel_by_external_key, sys))

\* update_from_fields of a reference-aware update of model_obj ended as u.
rel_updated_ref(db, loaded, sys, key, model_obj, u) ==
    IF u.exc = "DoesNotExist" THEN Res(db, NoObj, "")
    ELSE IF u.exc # "" THEN Res(db, NoObj, u.exc)
    ELSE IF model_obj # MappingOid(loaded)
    THEN LET sv == SaveMapping(SaveRecord(db, model_obj, u.obj), loaded, sys,
                               key, model_obj)
         IN  Res(sv.db, IF sv.exc = "" THEN model_obj ELSE NoObj, sv.exc)
    ELSE Res(SaveRecord(db, model_obj, u.obj), model_obj, "")

\* The record to update was chosen: linked before matched.
rel_chosen(db, db1, loaded, sys, key, model_obj, fields, refs, force, rel_by_external_key) ==
    IF model_obj = NoObj THEN Res(db1, NoObj, "")
    ELSE rel_updated_ref(db1, loaded, sys, key, model_obj,
             update_from_fields_rel(db.store[model_obj], model_obj, fields,
                                    refs, force, rel_by_external_key, sys))

\* UpdateModelWithReferenceAction.execute
UpdateModelWithReferenceAction_execute_rel(db, sys, key, match, fields, refs, force, rel_by_external_key) ==
    LET loaded == get_or_init_ext_mapp(db, sys, key, FALSE)
        linked == content_object(db, MappingOid(loaded))
        g == get_object(db, match, fields)
    IN
    IF Cardinality(loaded) > 1 THEN Res(db, NoObj, "MultipleObjectsReturned")
    ELSE IF Raises(g.st) # "" THEN Res(db, NoObj, Raises(g.st))
    ELSE IF g.st = "many" THEN Res(db, NoObj, "")
    ELSE rel_chosen(db,
                    IF g.id # NoObj /\ linked # NoObj /\ g.id # linked
                    THEN DeleteRecord(db, g.id) ELSE db,
                    loaded, sys, key,
                    IF linked # NoObj THEN linked ELSE g.id,
                    fields, refs, force, rel_by_external_key)

-----------------------------------------------------------------------------
(* Actions on the model with relations, for the external system s1. The    *)
(* owner column is empty, a mapped external key or an unmapped one; the     *)
(* tags directives are none, one, or one by name and one by code.           *)
RelFields == [name : {"a", "b"}, owner : {"", "k1", "k9"}]
TagFields == [name : {"a"}, owner : {""}]

RelDirectives ==
    {Directive(ch, "name", v) : ch \in {"+", "-", "=", "!"}, v \in {"x", "y", "z"}}
    \cup {Directive(ch, "code", "1") : ch \in {"+", "-", "=", "!"}}

RelRefs ==
    {<<>>}
    \cup {<<d>> : d \in RelDirectives}
    \cup {<<d, e>> : d \in {x \in RelDirectives : x.col = "name"},
                     e \in {x \in RelDirectives : x.col = "code"}}

NoRel(op) == [op |-> op]

InitRel ==
    /\ store = <<>>
    /\ maps = {}
    /\ nextId = 1
    /\ cascade \in Cascades
    /\ last = NoRel("idle")

\* The action ended as r; at most records records are ever created.
RelRan(r, records, op, key, fields, refs, force, rel_by_external_key) ==
    /\ r.db.nextId <= records + 1
    /\ store' = r.db.store
    /\ maps' = r.db.maps
    /\ nextId' = r.db.nextId
    /\ last' = [op |-> op, key |-> key, fields |-> fields, refs |-> refs,
                force |-> force, rel |-> rel_by_external_key, ret |-> r.ret,
                exc |-> r.exc, pre |-> CurDb]
    /\ UNCHANGED cascade

RelCreate(records, Fields, Refs) ==
    /\ last.op = "idle"
    /\ \E fields \in Fields, refs \in Refs, rel \in BOOLEAN :
          RelRan(CreateModelAction_execute_rel(CurDb, fields, refs, rel, "s1"),
                 records, "Create", <<>>, fields, refs, TRUE, rel)

RelUpdate(records, Fields, Refs) ==
    /\ last.op = "idle"
    /\ \E fields \in Fields, refs \in Refs, force \in BOOLEAN,
          rel \in BOOLEAN :
          RelRan(UpdateModelAction_execute_rel(CurDb, <<"name">>, fields, refs,
                                               force, rel, "s1"),
                 records, "Update", <<>>, fields, refs, force, rel)

RelUpdateWithReference(records, Fields, Refs) ==
    /\ last.op = "idle"
    /\ \E fields \in Fields, refs \in Refs, force \in BOOLEAN,
          rel \in BOOLEAN :
          RelRan(UpdateModelWithReferenceAction_execute_rel(
                     CurDb, "s1", K1, <<"name">>, fields, refs, force, rel),
                 records, "UpdateWithReference", K1, fields, refs, force, rel)

DiscardRel ==
    /\ last.op # "idle"
    /\ last' = NoRel("idle")
    /\ UNCHANGED <<store, maps, nextId, cascade>>

\* Rows with an owner column and no tags directive, on up to MaxRunId
\* records.
NextRel ==
    \/ RelCreate(MaxRunId, RelFields, {<<>>})
    \/ RelUpdate(MaxRunId, RelFields, {<<>>})
    \/ RelUpdateWithReference(MaxRunId, RelFields, {<<>>})
    \/ DiscardRel

SpecRel == InitRel /\ [][NextRel]_vars

\* Rows with tags directives and an empty owner column, on one record.
NextTags ==
    \/ RelCreate(1, TagFields, RelRefs)
    \/ RelUpdate(1, TagFields, RelRefs)
    \/ RelUpdateWithReference(1, TagFields, RelRefs)
    \/ DiscardRel

SpecTags == InitRel /\ [][NextTags]_vars

\* The owner column of the action is an external key without mapping row,
\* and the action found a record to apply it to.
Unresolvable ==
    /\ last.op \in {"Create", "Update", "UpdateWithReference"}
    /\ last.rel
    /\ last.fields.owner = "k9"
    /\ last.op # "Create" => Matching(last.pre, <<"name">>, last.fields) # {}
    /\ last.op # "Create" =>
          \A i \in DOMAIN last.pre.store :
             last.force \/ IsEmpty(last.pre.store[i].owner)

\* C28: with rel_by_external_key on and a relation value without mapping
\* row, the action returns none and raises nothing, so the policy goes on
\* to the next action; no record is created and no record or mapping row is
\* saved.
C28_UnresolvedRelation ==
    Unresolvable =>
        /\ last.ret = NoObj
        /\ last.exc = ""
        /\ DOMAIN store \subseteq DOMAIN last.pre.store
        /\ \A i \in DOMAIN store : store[i] = last.pre.store[i]
        /\ maps \subseteq last.pre.maps
        /\ last.op \in {"Create", "Update"} => store = last.pre.store

\* A reference-aware update that found its linked record, whose owner key
\* is not mapped.
C28_Witness ==
    /\ Unresolvable
    /\ last.op = "UpdateWithReference"
    /\ LookupMapping(last.pre.maps, "s1", K1) # {}
    /\ last.ret = NoObj

\* The action carried tags directives and had a record to apply them to
\* (the first record, or the new one of a create).
Directed ==
    /\ last.op \in {"Create", "Update", "UpdateWithReference"}
    /\ last.refs # <<>>
    /\ last.op # "Create" => DOMAIN last.pre.store # {}

\* The related set before the action.
TagsBefore == IF last.op = "Create" THEN {} ELSE last.pre.store[1].tags

\* The directives agree on one of + - = and name exactly one target.
WellFormed ==
    /\ \A i \in DOMAIN last.refs :
          last.refs[i].ch = last.refs[1].ch /\ last.refs[1].ch \in {"+", "-", "="}
    /\ Cardinality(m2m_targets(last.refs)) = 1

\* The directives mix action characters or use one other than + - =.
IllFormed ==
    \E i \in DOMAIN last.refs :
       last.refs[i].ch # last.refs[1].ch \/ last.refs[i].ch \notin {"+", "-", "="}

\* The related set the directives ask for.
TagsAsked ==
    LET t == CHOOSE x \in m2m_targets(last.refs) : TRUE IN
    CASE last.refs[1].ch = "+" -> TagsBefore \cup {t}
      [] last.refs[1].ch = "-" -> TagsBefore \ {t}
      [] OTHER -> {t}

\* C29: well-formed directives for the many-valued relation leave the
\* related set with the target added ('+'), with only the target removed
\* ('-'), or as exactly {target} ('='); ill-formed directives leave the
\* related set unchanged, and the other attributes of the row are applied.
C29_TagDirectives ==
    Directed =>
        /\ last.exc = ""
        /\ DOMAIN store # {}
        /\ WellFormed => store[1].tags = TagsAsked
        /\ IllFormed => store[1].tags = TagsBefore
        /\ IllFormed /\ last.op = "Create" => store[1].name = last.fields.name

\* The same for the actions that apply the directives with force to a
\* saved record.
TagDirectivesForced ==
    (Directed /\ last.force /\ last.op # "Create") => C29_TagDirectives

-----------------------------------------------------------------------------
\* C30: whatever files of create, update and delete rows the immediate
\* policy has run, for whatever external systems and keys, the mapping
\* store holds at most one row per (external system, external key) of the
\* entity type.
C30_OneMappingPerKey ==
    \A m1, m2 \in maps : (m1.sys = m2.sys /\ m1.key = m2.key) => m1 = m2

\* A run under force_init_instance of a create row whose external key was
\* mapped already: the insert of a second mapping row was attempted.
C30_Witness ==
    /\ last.op = "policy"
    /\ last.finit
    /\ last.sys # NoSystem
    /\ \E i \in DOMAIN last.rows :
          /\ "c" \in Chars(last.rows[i].flags)
          /\ last.rows[i].key.kind = "str"
          /\ LookupMapping(last.pre.maps, last.sys, last.rows[i].key.val) # {}
    /\ last.exc = "IntegrityError"
    /\ maps # {}

-----------------------------------------------------------------------------
(* The counters of BasicSyncPolicy and the skip warning at the end of       *)
(* execute(), computed from the rows a run executed.                        *)

\* instance.pk after action.execute(use_bulk=False) returned instance:
\* Model.delete(obj) leaves the deleted instance with no primary key.
pk_after(a, ret) == IF type(a) = "delete" THEN NoObj ELSE ret

\* execute_row_action: "if instance and instance.pk".
row_action_counted(a, ret) == ret # NoObj /\ pk_after(a, ret) # NoObj

\* num_of_model_actions after the rows of trace from the i-th on.
RECURSIVE num_of_model_actions(_, _)
num_of_model_actions(trace, i) ==
    IF i > Len(trace) THEN 0
    ELSE Cardinality(row_action_types(trace[i].group))
         + num_of_model_actions(trace, i + 1)

\* The actions of one finished row that execute_row_action counted.
row_executed(t) ==
    Cardinality({j \in 1..Len(t.group) :
                    row_action_counted(t.group[j], t.rets[j])})

\* num_of_executed_actions after the rows of trace from the i-th on.
RECURSIVE num_of_executed_actions(_, _)
num_of_executed_actions(trace, i) ==
    IF i > Len(trace) THEN 0
    ELSE row_executed(trace[i]) + num_of_executed_actions(trace, i + 1)

\* The warnings execute() logged: the number each one reports. An exception
\* out of execute_actions leaves execute() before the comparison.
skip_warnings(exc, attempted, executed) ==
    IF exc # "" THEN <<>>
    ELSE IF attempted # executed THEN <<attempted - executed>>
    ELSE <<>>

\* The warnings of the run the policy object holds.
RunWarnings ==
    skip_warnings(last.exc, num_of_model_actions(last.trace, 1),
                  num_of_executed_actions(last.trace, 1))

\* The j-th action of a finished row was applied to the store: it returned
\* the record it created, updated or deleted; removing mapping rows returns
\* nothing.
Applied(t, j) ==
    \/ t.group[j].cls = "DeleteExternalReference"
    \/ t.rets[j] # NoObj

\* Every row of the run asked for something and all of it was applied.
AllApplied ==
    /\ last.op = "policy"
    /\ last.exc = ""
    /\ \A i \in 1..Len(last.trace) :
          /\ last.trace[i].group # <<>>
          /\ \A j \in 1..Len(last.trace[i].group) :
                /\ last.trace[i].group[j].cls # "ModelAction"
                /\ Applied(last.trace[i], j)

\* C31: at the end of a run the skip warning is raised exactly when the
\* number of distinct action types attempted differs from the number of
\* executed actions, it reports their non-negative difference, it is raised
\* at most once, and a run whose every requested action was applied raises
\* no warning.
C31_SkipWarning ==
    (last.op = "policy" /\ last.exc = "") =>
        LET attempted == num_of_model_actions(last.trace, 1)
            executed == num_of_executed_actions(last.trace, 1)
        IN /\ (RunWarnings # <<>>) <=> (attempted # executed)
           /\ Len(RunWarnings) <= 1
           /\ (RunWarnings # <<>>) => (RunWarnings[1] = attempted - executed)
           /\ attempted - executed >= 0
           /\ AllApplied => (RunWarnings = <<>>)

-----------------------------------------------------------------------------
(* AutoNowMixin: the automatic-timestamp flags of the model's date fields   *)
(* during a run of BasicSyncPolicy. The flags live on the field objects of  *)
(* the model class; the policy object holds the header and the list of the  *)
(* fields it turned off.                                                    *)

\* The fields of the synchronised model: a text field and two date fields.
DateFields == {"created", "modified"}
ModelFields == {"name"} \cup DateFields

\* The flags a date field can be declared with (auto_now and auto_now_add
\* exclude each other).
Flag(auto_now, auto_now_add) ==
    [auto_now |-> auto_now, auto_now_add |-> auto_now_add]

DeclaredFlags == {Flag(FALSE, FALSE), Flag(TRUE, FALSE), Flag(FALSE, TRUE)}

\* The columns of an input file besides the control columns.
Columns == {"name", "created", "modified", "nickname"}

\* The policy object during execute(): the stores, the flags of the model's
\* date fields, header, disabled_auto_now_date_fields, and the flags each
\* executed action ran under.
AutoPolicy(db, meta) ==
    [db |-> db, meta |-> meta, header |-> {}, disabled |-> {},
     ran |-> <<>>, exc |-> ""]

\* The fields turn_off_auto_now switches off: header names that are date
\* fields of the model with one of the flags set.
auto_now_fields(header, meta) ==
    {f \in header \cap DateFields :
        meta[f].auto_now \/ meta[f].auto_now_add}

turn_off_auto_now(pol) ==
    [pol EXCEPT
        !.meta = [f \in DateFields |->
                    IF f \in auto_now_fields(pol.header, pol.meta)
                    THEN Flag(FALSE, FALSE) ELSE pol.meta[f]],
        !.disabled = pol.disabled \cup auto_now_fields(pol.header, pol.meta)]

\* turn_on_auto_now sets both flags of every field of the list.
turn_on_auto_now(pol) ==
    [pol EXCEPT
        !.meta = [f \in DateFields |->
                    IF f \in pol.disabled THEN Flag(TRUE, TRUE)
                    ELSE pol.meta[f]]]

\* execute_actions, before one action: the first action that is no delete
\* sets the header and turns the flags off.
auto_header(pol, a, columns) ==
    IF type(a) # "delete" /\ pol.header = {}
    THEN turn_off_auto_now([pol EXCEPT !.header = columns])
    ELSE pol

\* The action executed under pol returned or raised r.
auto_executed(pol, a, r) ==
    [pol EXCEPT !.db = r.db, !.exc = r.exc,
                !.ran = Append(pol.ran, [type |-> type(a),
                                         meta |-> pol.meta])]

auto_row_action(pol, a) == auto_executed(pol, a, execute(pol.db, a))

RECURSIVE auto_execute_group(_, _, _, _)
auto_execute_group(pol, group, columns, i) ==
    IF i > Len(group) \/ pol.exc # "" THEN pol
    ELSE auto_execute_group(
            auto_row_action(auto_header(pol, group[i], columns), group[i]),
            group, columns, i + 1)

\* The i-th row decoded as fd.
auto_row_built(fd, pol, columns) ==
    IF fd.exc # "" THEN [pol EXCEPT !.exc = fd.exc]
    ELSE auto_execute_group(pol, fd.group, columns, 1)

RECURSIVE auto_execute_actions(_, _, _, _, _)
auto_execute_actions(external_system, pol, rows, columns, i) ==
    IF i > Len(rows) \/ pol.exc # "" THEN pol
    ELSE auto_execute_actions(
            external_system,
            auto_row_built(from_dict(external_system, FALSE, rows[i]),
                           pol, columns),
            rows, columns, i + 1)

\* execute(): turn_on_auto_now follows execute_actions and is not reached
\* when an exception leaves it.
auto_ended(pol) ==
    IF pol.exc # "" THEN pol ELSE turn_on_auto_now(pol)

BasicSyncPolicy_execute_auto(external_system, db, meta, rows, columns) ==
    auto_ended(auto_execute_actions(external_system, AutoPolicy(db, meta),
                                    rows, columns, 1))

AutoFlagStrings == {<<>>, <<"c">>, <<"u">>, <<"d", "*">>, <<"c", "d">>}

AutoRows ==
    {Row(f, <<"name">>, NoKey, [name |-> "a"]) : f \in AutoFlagStrings}

AutoFiles == {<<r>> : r \in AutoRows} \cup {<<r, q>> : r, q \in AutoRows}

\* The header of a file: its name column and any of the other columns.
AutoHeaders == {{"name"} \cup h : h \in SUBSET (Columns \ {"name"})}

NoAuto(op, meta) ==
    [op |-> op, rows |-> <<>>, header |-> {}, disabled |-> {},
     ran |-> <<>>, exc |-> "", before |-> meta, meta |-> meta,
     pre |-> Db(<<>>, {}, 1)]

InitAuto ==
    /\ store = <<>>
    /\ maps = {}
    /\ nextId = 1
    /\ cascade = TRUE
    /\ \E meta \in [DateFields -> DeclaredFlags] : last = NoAuto("idle", meta)

\* The run ended as pol.
AutoRan(pol, rows, columns) ==
    /\ store' = pol.db.store
    /\ maps' = pol.db.maps
    /\ nextId' = pol.db.nextId
    /\ last' = [op |-> "auto", rows |-> rows, header |-> pol.header,
                disabled |-> pol.disabled, ran |-> pol.ran,
                exc |-> pol.exc, before |-> last.meta, meta |-> pol.meta,
                pre |-> CurDb]
    /\ UNCHANGED cascade

\* A run over a model whose date fields carry their declared flags.
AutoRun ==
    /\ last.op = "idle"
    /\ nextId <= MaxRunId
    /\ \E rows \in AutoFiles, columns \in AutoHeaders :
          AutoRan(BasicSyncPolicy_execute_auto(NoSystem, CurDb, last.meta,
                                               rows, columns),
                  rows, columns)

\* The finished policy object goes out of scope; the field objects of the
\* model class stay as the run left them.
DiscardAuto ==
    /\ last.op # "idle"
    /\ last' = NoAuto("idle", last.meta)
    /\ UNCHANGED <<store, maps, nextId, cascade>>

NextAuto ==
    \/ DiscardAuto
    \/ AutoRun

SpecAuto == InitAuto /\ [][NextAuto]_vars

\* C32: the automatic-timestamp flags of the date fields named in the
\* header are off while the rows are executed; after the run, on every exit
\* path, each such field has the flags it had before the run; fields not
\* named in the header are never changed.
C32_AutoNowRestored ==
    last.op = "auto" =>
        /\ \A i \in 1..Len(last.ran) :
              last.ran[i].type # "delete" =>
                  \A f \in last.header \cap DateFields :
                      last.ran[i].meta[f] = Flag(FALSE, FALSE)
        /\ \A f \in last.header \cap DateFields :
              last.meta[f] = last.before[f]
        /\ \A f \in DateFields \ last.header :
              /\ last.meta[f] = last.before[f]
              /\ \A i \in 1..Len(last.ran) :
                    last.ran[i].meta[f] = last.before[f]

-----------------------------------------------------------------------------
(* The executed-action counter of the bulk policy, under SpecBulk.          *)

\* The run is made of update rows only, each of which matched exactly one
\* record before the run, and every flush wrote all it was handed.
UpdateOnlyRun ==
    /\ last.op = "bulk"
    /\ last.exc = ""
    /\ last.rows # <<>>
    /\ \A i \in DOMAIN last.rows :
          /\ last.rows[i].flags = <<"u">>
          /\ Cardinality({id \in DOMAIN last.pre.store :
                             last.pre.store[id].name
                                 = last.rows[i].fields.name}) = 1
    /\ \A i \in DOMAIN last.flushes :
          last.flushes[i].kind = "update"
              /\ last.counts[i].persisted = last.flushes[i].size

\* C39: each flush of a bulk run raises the executed counter by the number
\* of records it persisted, so a run of update rows that each match one
\* record and are all persisted ends with executed equal to attempted and
\* without the skip warning.
C39_BulkExecutedCount ==
    last.op = "bulk" =>
        /\ \A i \in DOMAIN last.counts :
              last.counts[i].executed = last.counts[i].persisted
        /\ UpdateOnlyRun =>
              /\ last.executed = last.attempted
              /\ skip_warnings(last.exc, last.attempted, last.executed) = <<>>

\* C36: the assertion of map_to_external_objects holds at every flush of
\* every bulk run: no run ends by the AssertionError it raises when the
\* records returned by the multi-row write and the buffered mapping objects
\* differ in number.
C36_FlushAssertion == last.op = "bulk" => last.exc # "AssertionError"

\* The rows of the bulk run are create and update rows with a mappable
\* external key, built by a factory with an external system.
MappableCreateUpdate ==
    /\ last.op = "bulk"
    /\ last.sys # NoSystem
    /\ last.rows # <<>>
    /\ \A i \in DOMAIN last.rows :
          /\ last.rows[i].flags \in {<<"c">>, <<"u">>}
          /\ last.rows[i].key.kind = "str"

\* The stores the immediate policy ends with on the input of the bulk run.
ImmediateStores ==
    execute_actions(last.sys, FALSE, last.pre, last.rows, 1, <<>>).db

\* C37: on the same initial stores and the same create and update rows with
\* mappable keys, the bulk policy, with any batch size, and the immediate
\* policy end with the same record store and the same mapping store.
C37_BulkEqualsImmediate ==
    MappableCreateUpdate =>
        /\ store = ImmediateStores.store
        /\ maps = ImmediateStores.maps

\* C38: a reference-aware Update that returns none leaves the record store
\* and the mapping store unchanged; in particular the matched record that
\* differs from the linked one has not been deleted when the update of the
\* linked record was not applied.
C38_NoneChangesNothing ==
    (last.op = "UpdateWithReference" /\ last.ret = NoObj /\ last.exc = "") =>
        /\ store = last.pre.store
        /\ maps = last.pre.maps

-----------------------------------------------------------------------------
(* Unforced delete rows without a mappable key, under SpecPolicy.           *)

\* The stores the i-th row of the run started from.
StoresBefore(i) == IF i = 1 THEN last.pre ELSE last.trace[i - 1].db

\* The i-th row is an unforced delete whose key the factory cannot map.
UnmappableDelete(i) ==
    /\ last.rows[i].flags = <<"d">>
    /\ ~is_externally_mappable(last.sys, last.rows[i].key)

\* C35: an unforced delete request whose key is not externally mappable
\* yields an empty action group; executing the row deletes no record and no
\* mapping, even when the match specification matches exactly one record.
C35_UnmappableDeleteIsEmpty ==
    last.op = "policy" =>
        \A i \in DOMAIN last.trace :
            UnmappableDelete(i) =>
                /\ last.trace[i].group = <<>>
                /\ last.trace[i].db = StoresBefore(i)

\* A run whose first row is such a delete and matches exactly one record.
C35_Witness ==
    /\ last.op = "policy"
    /\ last.exc = ""
    /\ Len(last.trace) >= 1
    /\ UnmappableDelete(1)
    /\ last.rows[1].match # <<>>
    /\ Cardinality(Matching(last.pre, last.rows[1].match,
                            last.rows[1].fields)) = 1
    /\ last.pre.maps # {}

-----------------------------------------------------------------------------
(* MPTTBulkSyncPolicy.execute: mapping rows with pre-computed primary keys  *)
(* for every external key of the input, the bulk run, and the update of the *)
(* table's primary-key sequence (nextId).                                   *)

\* ExternalSystem.objects.first()
FirstSystem == "s1"

\* The classes whose objects have an external_key attribute.
HasExternalKey(a) ==
    a.cls \in {"CreateWithReference", "UpdateWithReference",
               "DeleteIfOnlyReference", "DeleteExternalReference"}

\* compute_pk_offset: Max('pk') of the table, or 0.
compute_pk_offset(db) ==
    IF DOMAIN db.store = {} THEN 0
    ELSE CHOOSE x \in DOMAIN db.store : \A y \in DOMAIN db.store : y <= x

\* The loop "Map all pks": mapped_external_keys in the order the keys were
\* met, and the exception that ended the loop.
NoKeys == [keys |-> <<>>, exc |-> ""]

\* One action of the loop.
map_action(m, a) ==
    IF ~HasExternalKey(a) THEN [m EXCEPT !.exc = "AttributeError"]
    ELSE IF \E n \in DOMAIN m.keys : m.keys[n] = a.key THEN m
    ELSE [m EXCEPT !.keys = Append(@, a.key)]

RECURSIVE map_group(_, _, _)
map_group(m, group, i) ==
    IF i > Len(group) \/ m.exc # "" THEN m
    ELSE map_group(map_action(m, group[i]), group, i + 1)

\* The i-th row decoded as fd.
map_row_built(fd, m) ==
    IF fd.exc # "" THEN [m EXCEPT !.exc = fd.exc]
    ELSE map_group(m, fd.group, 1)

RECURSIVE map_all_pks(_, _, _, _)
map_all_pks(external_system, m, rows, i) ==
    IF i > Len(rows) \/ m.exc # "" THEN m
    ELSE map_all_pks(external_system,
                     map_row_built(from_dict(external_system, FALSE, rows[i]), m),
                     rows, i + 1)

\* new_internal_pk of the n-th distinct key.
new_internal_pk(pk_offset, n) == pk_offset + n

\* mapped_objects
mapped_objects(keys, pk_offset) ==
    [n \in 1..Len(keys) |->
        Mapping(FirstSystem, keys[n], new_internal_pk(pk_offset, n))]

\* ExternalKeyMapping.objects.bulk_create(mapped_objects): one INSERT, which
\* raises when a row breaks unique_together.
mappings_created(db, objs) ==
    IF \E n \in DOMAIN objs : UniqueViolation(db.maps, objs[n].sys, objs[n].key)
    THEN [db |-> db, exc |-> "IntegrityError"]
    ELSE [db |-> Db(db.store, db.maps \cup {objs[n] : n \in DOMAIN objs},
                    db.nextId),
          exc |-> ""]

\* update_table_pk_sequence: LOCK TABLE ... IN EXCLUSIVE MODE, then setval
\* of the sequence to MAX(id)+1 (1 for an empty table), then COMMIT. sql
\* lists the statements with the lock state they ran under.
Statement(sql, locked) == [sql |-> sql, locked |-> locked]

update_table_pk_sequence(db) ==
    [db |-> Db(db.store, db.maps, compute_pk_offset(db) + 1),
     sql |-> <<Statement("LOCK TABLE", FALSE), Statement("setval", TRUE),
               Statement("COMMIT", TRUE)>>]

\* The policy object after execute(): the stores, pk_offset, the mapping
\* rows built and whether they were inserted, the stores right after that
\* insert, the statements of the sequence update, and the exception that
\* left execute().
MPTTPolicy(db, pk_offset, objs, inserted, mapped, sql, exc) ==
    [db |-> db, pk_offset |-> pk_offset, objs |-> objs,
     inserted |-> inserted, mapped |-> mapped, sql |-> sql, exc |-> exc]

\* super().execute() ended as bk.
mptt_executed(bk, pk_offset, objs, mapped) ==
    IF bk.exc # ""
    THEN MPTTPolicy(bk.db, pk_offset, objs, TRUE, mapped, <<>>, bk.exc)
    ELSE MPTTPolicy(update_table_pk_sequence(bk.db).db, pk_offset, objs, TRUE,
                    mapped, update_table_pk_sequence(bk.db).sql, "")

\* The insert of the mapping rows ended as c.
mptt_mapped(c, external_system, rows, batch_size, conf, pk_offset, objs) ==
    IF c.exc # ""
    THEN MPTTPolicy(c.db, pk_offset, objs, FALSE, c.db, <<>>, c.exc)
    ELSE mptt_executed(
            BulkSyncPolicy_execute_super(external_system, c.db, rows,
                                         batch_size, conf, TRUE),
            pk_offset, objs, c.db)

\* The loop "Map all pks" ended as m.
mptt_keys(m, external_system, db, rows, batch_size, conf, pk_offset) ==
    IF m.exc # ""
    THEN MPTTPolicy(db, pk_offset, <<>>, FALSE, db, <<>>, m.exc)
    ELSE mptt_mapped(mappings_created(db, mapped_objects(m.keys, pk_offset)),
                     external_system, rows, batch_size, conf, pk_offset,
                     mapped_objects(m.keys, pk_offset))

\* MPTTBulkSyncPolicy.execute
MPTTBulkSyncPolicy_execute(external_system, db, rows, batch_size, conf) ==
    mptt_keys(map_all_pks(external_system, NoKeys, rows, 1),
              external_system, db, rows, batch_size, conf,
              compute_pk_offset(db))

\* Rows of a tree load: create rows with an external key or without one,
\* matched on nothing; an update row and an unforced delete row with a key.
MPTTRows ==
    {Row(<<"c">>, <<>>, k, [name |-> "a"]) : k \in {NoKey, StrKey(K1), StrKey(K2)}}
    \cup {Row(<<"u">>, <<"name">>, StrKey(K1), [name |-> "a"]),
          Row(<<"d">>, <<"name">>, StrKey(K1), [name |-> "a"])}

MPTTFiles ==
    {<<r>> : r \in MPTTRows} \cup {<<r, q>> : r, q \in MPTTRows}
    \cup {<<r, q, r>> : r, q \in MPTTRows}

NoMPTT(op) == [op |-> op]

InitMPTT ==
    /\ store = <<>>
    /\ maps = {}
    /\ nextId = 1
    /\ cascade \in Cascades
    /\ last = NoMPTT("idle")

\* The run ended as pol.
MPTTRan(pol, sys, rows, batch_size) ==
    /\ store' = pol.db.store
    /\ maps' = pol.db.maps
    /\ nextId' = pol.db.nextId
    /\ last' = [op |-> "mptt", sys |-> sys, rows |-> rows,
                batch_size |-> batch_size, pre |-> CurDb,
                pk_offset |-> pol.pk_offset, objs |-> pol.objs,
                inserted |-> pol.inserted, mapped |-> pol.mapped,
                sql |-> pol.sql, exc |-> pol.exc]
    /\ UNCHANGED cascade

MPTTRun ==
    /\ last.op = "idle"
    /\ nextId <= MaxRunId
    /\ \E sys \in Systems, batch_size \in 1..MaxBatch, rows \in MPTTFiles :
          MPTTRan(MPTTBulkSyncPolicy_execute(sys, CurDb, rows, batch_size,
                                             FALSE),
                  sys, rows, batch_size)

\* Between two tree loads a DeleteModelAction deletes a record it is given.
MPTTDelete ==
    /\ last.op = "idle"
    /\ \E id \in DOMAIN store :
          /\ store' = DeleteModelAction_execute(CurDb, id, <<>>, NoFields).db.store
          /\ maps' = DeleteModelAction_execute(CurDb, id, <<>>, NoFields).db.maps
    /\ UNCHANGED <<nextId, cascade, last>>

DiscardMPTT ==
    /\ last.op # "idle"
    /\ last' = NoMPTT("idle")
    /\ UNCHANGED <<store, maps, nextId, cascade>>

NextMPTT ==
    \/ MPTTRun
    \/ MPTTDelete
    \/ DiscardMPTT

SpecMPTT == InitMPTT /\ [][NextMPTT]_vars

\* The distinct external keys of the rows of the run.
InputKeys == {last.rows[i].key : i \in DOMAIN last.rows}

\* The mapping rows were built as the statement says: one per distinct key,
\* the n-th with primary key (maximum existing id) + n, pairwise distinct
\* and above every id present before the run.
Allocated ==
    /\ Len(last.objs) = Cardinality(InputKeys)
    /\ {StrKey(last.objs[n].key) : n \in DOMAIN last.objs} = InputKeys
    /\ \A n \in DOMAIN last.objs :
          /\ last.objs[n].oid = compute_pk_offset(last.pre) + n
          /\ \A id \in DOMAIN last.pre.store : last.objs[n].oid > id
          /\ \A k \in DOMAIN last.objs : k # n => last.objs[k].oid # last.objs[n].oid

\* The mapping rows were in the mapping store before any row was inserted.
AllocatedFirst ==
    /\ last.inserted
    /\ last.mapped.store = last.pre.store
    /\ \A n \in DOMAIN last.objs : last.objs[n] \in last.mapped.maps

\* After the run the next value of the sequence is above every id of the
\* table, and it was set under the exclusive lock.
SequenceRepaired ==
    /\ \A id \in DOMAIN store : nextId > id
    /\ \E i \in DOMAIN last.sql :
          last.sql[i].sql = "setval" /\ last.sql[i].locked

\* C33: the tree bulk policy, before any row is inserted, allocates one
\* mapping per distinct external key of the input, the n-th distinct key
\* receiving (maximum existing id) + n, so that the ids are pairwise
\* distinct and above every id present before the run; after the run the
\* sequence's next value is above every id in the table and the sequence
\* was updated under an exclusive table lock.
C33_PreallocatedIds ==
    last.op = "mptt" => Allocated /\ AllocatedFirst /\ SequenceRepaired

-----------------------------------------------------------------------------
(* Two runs in one process, each with its own policy object, on the same    *)
(* model class. The stores and the flags of the model's field objects are   *)
(* shared; header, counters, the list of switched-off fields and the create *)
(* buffer belong to the policy object. BasicSyncPolicy declares header and  *)
(* the counters on the class and assigns them on the instance when a run    *)
(* first writes them; BulkSyncPolicy assigns them in __init__. A run is a   *)
(* file of create rows; the threads are switched between the steps below,   *)
(* in particular between the test and the assignments of turn_off_auto_now. *)
RunNames == {"A", "B"}

PolicyClasses == {"BasicSyncPolicy", "BulkSyncPolicy"}

\* The class attributes of BasicSyncPolicy.
ClassAttrs == [header |-> {}, num_of_model_actions |-> 0,
               num_of_executed_actions |-> 0]

\* No policy object.
NoRun ==
    [cls |-> "", pc |-> "none", todo |-> 0, header |-> {}, seen |-> {},
     disabled |-> {}, attempted |-> 0, executed |-> 0, create |-> <<>>]

\* __init__ of the policy class for a file of todo rows.
NewRun(cls, todo) == [NoRun EXCEPT !.cls = cls, !.pc = "built", !.todo = todo]

\* The columns of the files.
ConcHeader == {"name", "modified"}

ConcFields == [name |-> "a"]

\* execute_actions before the first action: "not self.header" reads the
\* class attribute of a BasicSyncPolicy that has not assigned its own; the
\* header is assigned on the instance, and turn_off_auto_now tests the flags
\* of the header's fields.
header_read(run, shared) ==
    IF run.cls = "BasicSyncPolicy" /\ run.pc = "built" THEN shared.header
    ELSE run.header

conc_checked(run, shared, meta) ==
    IF header_read(run, shared) = {}
    THEN [run EXCEPT !.pc = "checked", !.header = ConcHeader,
                     !.seen = auto_now_fields(ConcHeader, meta)]
    ELSE [run EXCEPT !.pc = "checked"]

\* turn_off_auto_now after the test: the assignments and the append.
conc_switched(run) ==
    [run EXCEPT !.pc = "running", !.disabled = @ \cup run.seen]

conc_meta_off(run, meta) ==
    [f \in DateFields |-> IF f \in run.seen THEN Flag(FALSE, FALSE) ELSE meta[f]]

\* turn_on_auto_now of the run.
conc_meta_on(run, meta) ==
    [f \in DateFields |-> IF f \in run.disabled THEN Flag(TRUE, TRUE) ELSE meta[f]]

\* One create row of a BasicSyncPolicy executed as r.
conc_row_basic(run, r) ==
    [run EXCEPT !.todo = @ - 1, !.attempted = @ + 1,
                !.executed = IF r.ret # NoObj THEN @ + 1 ELSE @]

\* One create row of a BulkSyncPolicy: the instance is buffered.
conc_row_bulk(run, r) ==
    [run EXCEPT !.todo = @ - 1, !.attempted = @ + 1,
                !.create = Append(@, r.inst)]

\* bulk_create_with_ref of the run on the shared stores ended as c.
conc_flushed(run, c) ==
    [run EXCEPT !.create = <<>>, !.executed = @ + Len(c.objs)]

Conc(who, meta, shared, runs) ==
    [op |-> "conc", who |-> who, meta |-> meta, shared |-> shared,
     runs |-> runs]

InitConc ==
    /\ store = <<>>
    /\ maps = {}
    /\ nextId = 1
    /\ cascade = TRUE
    /\ \E meta \in [DateFields -> DeclaredFlags] :
          last = Conc("", meta, ClassAttrs, [r \in RunNames |-> NoRun])

\* A policy object is built for a file of one or two rows.
ConcConstruct(r) ==
    /\ last.runs[r].pc = "none"
    /\ nextId <= MaxRunId
    /\ \E cls \in PolicyClasses, todo \in 1..MaxBatch :
          last' = Conc(r, last.meta, last.shared,
                       [last.runs EXCEPT ![r] = NewRun(cls, todo)])
    /\ UNCHANGED <<store, maps, nextId, cascade>>

\* The run reaches its first action and tests the flags.
ConcCheck(r) ==
    /\ last.runs[r].pc = "built"
    /\ last' = Conc(r, last.meta, last.shared,
                    [last.runs EXCEPT
                        ![r] = conc_checked(@, last.shared, last.meta)])
    /\ UNCHANGED <<store, maps, nextId, cascade>>

\* The run switches off the flags it found set.
ConcSwitch(r) ==
    /\ last.runs[r].pc = "checked"
    /\ last' = Conc(r, conc_meta_off(last.runs[r], last.meta), last.shared,
                    [last.runs EXCEPT ![r] = conc_switched(@)])
    /\ UNCHANGED <<store, maps, nextId, cascade>>

\* A BasicSyncPolicy executes its next row.
ConcRowBasic(r) ==
    /\ last.runs[r].pc = "running"
    /\ last.runs[r].cls = "BasicSyncPolicy"
    /\ last.runs[r].todo > 0
    /\ store' = CreateModelAction_execute(CurDb, <<>>, ConcFields, FALSE).db.store
    /\ nextId' = CreateModelAction_execute(CurDb, <<>>, ConcFields, FALSE).db.nextId
    /\ last' = Conc(r, last.meta, last.shared,
                    [last.runs EXCEPT
                        ![r] = conc_row_basic(
                                   @, CreateModelAction_execute(
                                          CurDb, <<>>, ConcFields, FALSE))])
    /\ UNCHANGED <<maps, cascade>>

\* A BulkSyncPolicy executes its next row.
ConcRowBulk(r) ==
    /\ last.runs[r].pc = "running"
    /\ last.runs[r].cls = "BulkSyncPolicy"
    /\ last.runs[r].todo > 0
    /\ last' = Conc(r, last.meta, last.shared,
                    [last.runs EXCEPT
                        ![r] = conc_row_bulk(
                                   @, CreateModelAction_bulk(
                                          CurDb, <<>>, ConcFields, FALSE))])
    /\ UNCHANGED <<store, maps, nextId, cascade>>

\* The end of execute(): the pending creates are written, then
\* turn_on_auto_now.
ConcEnd(r) ==
    /\ last.runs[r].pc = "running"
    /\ last.runs[r].todo = 0
    /\ store' = bulk_create(CurDb, last.runs[r].create).db.store
    /\ nextId' = bulk_create(CurDb, last.runs[r].create).db.nextId
    /\ last' = Conc(r, conc_meta_on(last.runs[r], last.meta), last.shared,
                    [last.runs EXCEPT
                        ![r] = [conc_flushed(
                                    @, bulk_create(CurDb, last.runs[r].create))
                                EXCEPT !.pc = "ended"]])
    /\ UNCHANGED <<maps, cascade>>

\* The finished policy object goes out of scope.
ConcDiscard(r) ==
    /\ last.runs[r].pc = "ended"
    /\ last' = Conc(r, last.meta, last.shared,
                    [last.runs EXCEPT ![r] = NoRun])
    /\ UNCHANGED <<store, maps, nextId, cascade>>

NextConc ==
    \E r \in RunNames :
        \/ ConcConstruct(r)
        \/ ConcCheck(r)
        \/ ConcSwitch(r)
        \/ ConcRowBasic(r)
        \/ ConcRowBulk(r)
        \/ ConcEnd(r)
        \/ ConcDiscard(r)

SpecConc == InitConc /\ [][NextConc]_vars

\* A step of one run leaves the policy object of the other run and the
\* class attributes as they were.
RunStateKept ==
    \A r \in RunNames :
        r # last'.who =>
            /\ last'.runs[r] = last.runs[r]
            /\ last'.shared = last.shared

\* The flags a running run switched off are off.
FlagsHeld ==
    \A r \in RunNames :
        last.runs[r].pc = "running" =>
            \A f \in last.runs[r].disabled : last.meta[f] = Flag(FALSE, FALSE)

\* C40: two runs with separate policy objects do not interfere through run
\* state: the buffers, counters and header of one run are never changed by
\* the other, and the flags a run turned off stay off until that run itself
\* ends, even when the other run starts later or ends first.
C40_RunsDoNotInterfere == [][RunStateKept]_vars /\ []FlagsHeld

=============================================================================
